---------------------------- MODULE Spec2Model ----------------------------
(***************************************************************************)
(* Feature-voting backend: the handlers of app/routes/features.py          *)
(* (create_feature, read_feature, update_feature, vote_feature,            *)
(* remove_vote) and the identity resolution of app/core/auth.py over the   *)
(* entity store of alembic/versions/001_initial_schema.py.                 *)
(*                                                                         *)
(* Every request runs in a session of its own (core/database.py get_db).   *)
(* A handler is a sequence of store statements; each statement is one      *)
(* step of the model, so statements of different requests interleave.      *)
(* A session created with autoflush=False writes nothing before            *)
(* db.commit(): the commit flushes the pending INSERT/DELETE of the Vote   *)
(* row and the UPDATE of the feature's vote_count in one transaction,      *)
(* which the store applies atomically or not at all.  The value the        *)
(* UPDATE writes is the value the handler computed from the vote_count it  *)
(* read when it loaded the feature.                                        *)
(***************************************************************************)
EXTENDS Integers, FiniteSets, Sequences, TLC

\* Bounds of the model.
NumWorkers == 2
NumUsers == 2
MaxFeatures == 2
MaxVoteId == 3
MaxHeaderLen == 2

Workers == 1..NumWorkers
UserIds == 1..NumUsers
\* feature_id path parameters tried: 0 is a non-positive id, and an id above
\* the number of stored features names no feature.
FeatureIds == 0..MaxFeatures
Ops == {"vote", "remove"}

VARIABLES
  users,      \* users table: sequence indexed by id of [username, email]
  features,   \* features table: sequence indexed by id of
              \* [title, description, author_id, created_at, vote_count]
  votes,      \* votes table: set of rows [id, user_id, feature_id]
  foreign_keys, \* whether the store enforces the declared foreign keys
  input,      \* input[w]: [x_user_id, body, query, user] of w's request as received
  pc,         \* pc[w]: position of worker w's request in its handler
  req,        \* req[w]: [op, current_user_id, feature_id] of w's request
  loc,        \* loc[w]: session-local objects loaded by w: the feature's
              \* [title, description, vote_count] and the vote's vote_id
  resp,       \* resp[w]: response [status, code, vote_count] of w's request
  listing,    \* listing[w]: the page of features w's read_features returned
  store0      \* the store before the call (SpecSeq) or before the group of
              \* concurrent calls (Spec)

vars == <<users, features, votes, foreign_keys, input, pc, req, loc, resp, listing, store0>>

\* What no statement of a vote_feature or remove_vote call changes.
fixed == <<users, foreign_keys, input, listing>>

store == [features |-> features, votes |-> votes]

NoReq == [op |-> "none", current_user_id |-> 0, feature_id |-> 0]

\* X-User-ID as get_current_user receives it (Optional[str]): absent, or
\* present with a string of characters.
NoHeader == [present |-> FALSE, value |-> << >>]

\* A field of a FeatureUpdate body: not in the request, sent as null, or
\* sent with a value.
Unset(v) == [kind |-> "unset", value |-> v]
Null(v) == [kind |-> "null", value |-> v]
Value(v) == [kind |-> "value", value |-> v]
\* A str is the sequence of its characters; Text(c, n) writes c n times.
Text(c, n) == [i \in 1..n |-> c]

NoBody == [title |-> Unset(<< >>), description |-> Unset(<< >>), vote_count |-> Unset(0)]

\* The query parameters of read_features, here those of no such request.
NoQuery == [page |-> 0, page_size |-> 0]

\* The body of a create_user request, here that of no such request.
NoUser == [username |-> << >>, email |-> << >>]

NoInput == [x_user_id |-> NoHeader, body |-> NoBody, query |-> NoQuery, user |-> NoUser]

\* The length limits of FeatureBase (schemas/feature.py).
title_min_length == 3
title_max_length == 100
description_min_length == 10
description_max_length == 1000

\* Titles and descriptions requests carry; all pass FeatureBase.
Titles == {Text("a", title_min_length), Text("b", title_min_length)}
Descriptions == {Text("a", description_min_length), Text("b", description_min_length)}
FirstTitle == Text("a", title_min_length)
FirstDescription == Text("a", description_min_length)
\* FeatureBase: the Field constraints of title and description, on the
\* strings as given.
FeatureBase(t, d) ==
  /\ Len(t) >= title_min_length /\ Len(t) <= title_max_length
  /\ Len(d) >= description_min_length /\ Len(d) <= description_max_length

\* response_model=Feature: whether a stored feature passes the response
\* model, which holds the constraints of FeatureBase.  A feature that does
\* not is answered by generic_exception_handler: 500 UNEXPECTED_ERROR.
Feature(row) == FeatureBase(row.title, row.description)

NoLoc == [title |-> << >>, description |-> << >>, vote_count |-> 0, vote_id |-> 0]
NoResp == [status |-> 0, code |-> "none", vote_count |-> -1]
NoListing == [items |-> << >>, total_count |-> 0, page |-> 0, page_size |-> 0,
              total_pages |-> 0, has_next |-> FALSE, has_previous |-> FALSE]

\* User i as registered earlier: a username and an email of its own, as
\* create_user stores them.
StoredUser(i) ==
  [username |-> Text("a", i + 1), email |-> Text("a", i) \o <<"@", "a", ".", "a">>]
StoredUsers == [i \in UserIds |-> StoredUser(i)]

Max(a, b) == IF a >= b THEN a ELSE b

RECURSIVE SetMax(_)
SetMax(S) == IF S = {} THEN 0 ELSE LET x == CHOOSE x \in S : TRUE IN Max(x, SetMax(S \ {x}))

\* str.strip() on the left and on the right.
RECURSIVE LStrip(_)
LStrip(s) == IF s # << >> /\ Head(s) = " " THEN LStrip(Tail(s)) ELSE s
RECURSIVE RStrip(_)
RStrip(s) ==
  IF s # << >> /\ s[Len(s)] = " " THEN RStrip(SubSeq(s, 1, Len(s) - 1)) ELSE s
strip(s) == LStrip(RStrip(s))

\* FeatureCreate(title, description): the Field constraints of FeatureBase
\* on the strings as given, then validate_title and validate_description,
\* which refuse a string that is blank and return the others stripped.
FeatureCreate(t, d) ==
  [ok |-> FeatureBase(t, d) /\ strip(t) # << >> /\ strip(d) # << >>,
   title |-> strip(t), description |-> strip(d)]

\* The body of a create_feature request as received.
FeatureBody(t, d) == [NoBody EXCEPT !.title = Value(t), !.description = Value(d)]

\* Mutant: the counter of a new feature starts at 1.
NewFeature_counted(u, t, d) ==
  [title |-> t, description |-> d, author_id |-> u,
   created_at |-> Len(features) + 1, vote_count |-> 1]

\* FeatureModel(title, description, author_id) of create_feature as the
\* store keeps it: vote_count has default=0 (models/feature.py), and
\* created_at is the reading of the store's clock, which the model takes
\* to be the number of the insert.
NewFeature(u, t, d) ==
  [title |-> t, description |-> d, author_id |-> u,
   created_at |-> Len(features) + 1, vote_count |-> 0]

FeatureExists(f) == f \in DOMAIN features

\* db.query(VoteModel).filter(user_id == u, feature_id == f)
VoteRows(u, f) == {v \in votes : v.user_id = u /\ v.feature_id = f}

\* The rows of the ledger for one feature.
FeatureVotes(f) == {v \in votes : v.feature_id = f}

\* Whether the store rejects a row that refers to user u: the foreign keys
\* users.id of features.author_id and votes.user_id, where enforced.
ForeignKeyViolation(u) == foreign_keys /\ u \notin DOMAIN users

\* Mutant: the votes table without its uniqueness constraint.
UniqueViolation_none(u, f) == FALSE

\* UniqueConstraint('user_id', 'feature_id', name='_user_feature_vote'):
\* whether inserting a row for (u, f) violates it.
UniqueViolation(u, f) == VoteRows(u, f) # {}

\* The key the store gives a new votes row.  The default store
\* (core/database.py: sqlite) numbers an INTEGER PRIMARY KEY row one above
\* the largest key in the table.
NewVoteId == SetMax({v.id : v \in votes}) + 1

Quiescent(w) == pc[w] \in {"idle", "done"}

Init ==
  /\ users = StoredUsers
  /\ foreign_keys = FALSE
  /\ input = [w \in Workers |-> NoInput]
  /\ features = << >>
  /\ votes = {}
  /\ pc = [w \in Workers |-> "idle"]
  /\ req = [w \in Workers |-> NoReq]
  /\ loc = [w \in Workers |-> NoLoc]
  /\ resp = [w \in Workers |-> NoResp]
  /\ listing = [w \in Workers |-> NoListing]
  /\ store0 = [features |-> << >>, votes |-> {}]

\* The response leaves and the session is closed (get_db: db.close()).
Respond(w, status, code, count) ==
  /\ pc' = [pc EXCEPT ![w] = "done"]
  /\ resp' = [resp EXCEPT ![w] = [status |-> status, code |-> code, vote_count |-> count]]
  /\ loc' = [loc EXCEPT ![w] = NoLoc]

\* create_feature, served alone, for a caller resolved to u and a body
\* {title: t, description: d}.  A body FeatureCreate refuses is answered by
\* validation_exception_handler: 422 validation_error.  Otherwise one
\* INSERT of what FeatureCreate returned and its commit, answered 201 with
\* the stored feature where it passes the response model.  A rejected
\* INSERT raises IntegrityError, which integrity_error_handler answers 500
\* integrity_error.
create_feature(u, t, d) ==
  LET body == FeatureCreate(t, d)
      row == NewFeature(u, body.title, body.description)
  IN
  /\ \A x \in Workers : Quiescent(x)
  /\ Len(features) < MaxFeatures
  /\ req' = [req EXCEPT ![1] = [op |-> "create", current_user_id |-> u,
                                 feature_id |-> Len(features) + 1]]
  /\ input' = [input EXCEPT ![1] = [NoInput EXCEPT !.body = FeatureBody(t, d)]]
  /\ pc' = [pc EXCEPT ![1] = "done"]
  /\ IF ~body.ok
       THEN /\ resp' = [resp EXCEPT ![1] = [status |-> 422, code |-> "validation_error",
                                            vote_count |-> -1]]
            /\ UNCHANGED features
     ELSE IF ForeignKeyViolation(u)
       THEN /\ resp' = [resp EXCEPT ![1] = [status |-> 500, code |-> "integrity_error",
                                            vote_count |-> -1]]
            /\ UNCHANGED features
       ELSE /\ features' = Append(features, row)
            /\ resp' = [resp EXCEPT ![1] =
                          IF Feature(row)
                            THEN [status |-> 201, code |-> "ok", vote_count |-> 0]
                            ELSE [status |-> 500, code |-> "UNEXPECTED_ERROR",
                                  vote_count |-> -1]]
  /\ store0' = store
  /\ UNCHANGED <<votes, loc, users, foreign_keys, listing>>

\* The requests admitted one at a time: a vote is admitted while the key its
\* row would get is within the bound of the model.
Admitted(op) == op = "vote" => NewVoteId <= MaxVoteId

\* A request served alone: every earlier request has been answered, and the
\* store as the call finds it is recorded.
ArriveSeq(op, u, f) ==
  /\ \A x \in Workers : Quiescent(x)
  /\ Admitted(op)
  /\ pc' = [pc EXCEPT ![1] = "get_feature"]
  /\ req' = [req EXCEPT ![1] = [op |-> op, current_user_id |-> u, feature_id |-> f]]
  /\ resp' = [resp EXCEPT ![1] = NoResp]
  /\ store0' = store
  /\ UNCHANGED <<features, votes, loc, fixed>>

\* The characters of the X-User-ID values tried, and the decimal digits
\* among them with their values.
Chars == {"0", "1", "2", "+", "-", " ", "a", "."}
Digits == {"0", "1", "2"}
DigitValue(c) == IF c = "0" THEN 0 ELSE IF c = "1" THEN 1 ELSE 2

\* The number a string of digits writes in base 10.
RECURSIVE DecimalValue(_)
DecimalValue(ds) ==
  IF ds = << >> THEN 0
  ELSE 10 * DecimalValue(SubSeq(ds, 1, Len(ds) - 1)) + DigitValue(ds[Len(ds)])

\* int(x_user_id) (line 16): surrounding whitespace dropped, an optional
\* sign, then one or more digits; anything else raises ValueError.
IntParse(s) ==
  LET t == RStrip(LStrip(s))
      signed == t # << >> /\ Head(t) \in {"+", "-"}
      ds == IF signed THEN Tail(t) ELSE t
      valid == ds # << >> /\ \A i \in 1..Len(ds) : ds[i] \in Digits
  IN [ok |-> valid,
      value |-> IF ~valid THEN 0
                ELSE IF signed /\ Head(t) = "-" THEN 0 - DecimalValue(ds)
                ELSE DecimalValue(ds)]

\* Mutant: zero passes as an identity.
get_current_user_zero(x_user_id) ==
  IF ~x_user_id.present \/ x_user_id.value = << >>
    THEN [ok |-> FALSE, status |-> 401, code |-> "HTTP_401", user_id |-> 0]
  ELSE IF ~IntParse(x_user_id.value).ok \/ IntParse(x_user_id.value).value < 0
    THEN [ok |-> FALSE, status |-> 400, code |-> "HTTP_400", user_id |-> 0]
  ELSE [ok |-> TRUE, status |-> 0, code |-> "none",
        user_id |-> IntParse(x_user_id.value).value]

\* get_current_user (core/auth.py): 401 for a header that is None or empty,
\* 400 for one int() rejects or reads as a value <= 0, else the value.
get_current_user(x_user_id) ==
  IF ~x_user_id.present \/ x_user_id.value = << >>
    THEN [ok |-> FALSE, status |-> 401, code |-> "HTTP_401", user_id |-> 0]
  ELSE IF ~IntParse(x_user_id.value).ok \/ IntParse(x_user_id.value).value <= 0
    THEN [ok |-> FALSE, status |-> 400, code |-> "HTTP_400", user_id |-> 0]
  ELSE [ok |-> TRUE, status |-> 0, code |-> "none",
        user_id |-> IntParse(x_user_id.value).value]

\* The identity dependency of vote_feature and remove_vote
\* (current_user_id: int = Depends(get_current_user)): it is resolved
\* before the handler's first statement, and its HTTPException is the
\* response.
resolve_current_user(w) ==
  /\ pc[w] = "auth"
  /\ LET r == get_current_user(input[w].x_user_id)
     IN IF r.ok
          THEN /\ req' = [req EXCEPT ![w].current_user_id = r.user_id]
               /\ pc' = [pc EXCEPT ![w] = "get_feature"]
               /\ UNCHANGED <<resp, loc>>
          ELSE /\ Respond(w, r.status, r.code, -1)
               /\ UNCHANGED req
  /\ UNCHANGED <<features, votes, store0, fixed>>

\* The load of the feature: db.query(FeatureModel).filter(id == feature_id).first()
LoadFeature(w) ==
  LET row == features[req[w].feature_id]
  IN [loc EXCEPT ![w] = [title |-> row.title, description |-> row.description,
                         vote_count |-> row.vote_count, vote_id |-> 0]]

\* vote_feature, lines 76-81: the id check and the load of the feature.
vote_feature_get(w) ==
  /\ pc[w] = "get_feature" /\ req[w].op = "vote"
  /\ IF req[w].feature_id <= 0
       THEN Respond(w, 400, "HTTP_400", -1)
     ELSE IF ~FeatureExists(req[w].feature_id)
       THEN Respond(w, 404, "FEATURE_NOT_FOUND", -1)
     ELSE /\ loc' = LoadFeature(w)
          /\ pc' = [pc EXCEPT ![w] = "check_vote"]
          /\ UNCHANGED resp
  /\ UNCHANGED <<features, votes, req, store0, fixed>>

\* existing_vote of vote_feature, lines 83-86.
existing_vote(w) == VoteRows(req[w].current_user_id, req[w].feature_id) # {}

\* Mutant: the duplicate found by the pre-check raised as a plain
\* HTTPException(400).
vote_feature_check_badrequest(w) ==
  /\ pc[w] = "check_vote" /\ req[w].op = "vote"
  /\ IF existing_vote(w)
       THEN Respond(w, 400, "HTTP_400", -1)
       ELSE pc' = [pc EXCEPT ![w] = "commit"] /\ UNCHANGED <<resp, loc>>
  /\ UNCHANGED <<features, votes, req, store0, fixed>>

\* Mutant: the counter is raised and committed before the duplicate is
\* looked for.
vote_feature_check_late(w) ==
  /\ pc[w] = "check_vote" /\ req[w].op = "vote"
  /\ IF existing_vote(w)
       THEN /\ Respond(w, 409, "DUPLICATE_VOTE", -1)
            /\ features' = [features EXCEPT ![req[w].feature_id].vote_count = @ + 1]
       ELSE /\ pc' = [pc EXCEPT ![w] = "commit"]
            /\ UNCHANGED <<resp, loc, features>>
  /\ UNCHANGED <<votes, req, store0, fixed>>

\* vote_feature, lines 83-89: the application's duplicate pre-check.
vote_feature_check(w) ==
  /\ pc[w] = "check_vote" /\ req[w].op = "vote"
  /\ IF existing_vote(w)
       THEN Respond(w, 409, "DUPLICATE_VOTE", -1)
       ELSE pc' = [pc EXCEPT ![w] = "commit"] /\ UNCHANGED <<resp, loc>>
  /\ UNCHANGED <<features, votes, req, store0, fixed>>

\* The UPDATE of features.vote_count a flush emits: the unit of work writes
\* an attribute only when its value differs from the loaded one.
FlushVoteCount(w, new) ==
  IF new = loc[w].vote_count
    THEN features
    ELSE [features EXCEPT ![req[w].feature_id].vote_count = new]

\* The INSERT of the pending Vote row (lines 91-95) as db.commit() flushes it.
InsertVote(w) ==
  votes \cup {[id |-> NewVoteId,
               user_id |-> req[w].current_user_id,
               feature_id |-> req[w].feature_id]}

\* Mutant: the counter raised twice.
VoteCountAfterVote_twice(w) == loc[w].vote_count + 2

\* feature.vote_count += 1 (line 97) on the session's copy of the feature.
VoteCountAfterVote(w) == loc[w].vote_count + 1

\* Mutant: a commit that never raises IntegrityError.
CommitRejected_never(w) == FALSE

\* Whether the store rejects the flushed INSERT (IntegrityError).
CommitRejected(w) == UniqueViolation(req[w].current_user_id, req[w].feature_id)

\* Mutant: IntegrityError without a handler registered for it: the request
\* whose commit the store rejects ends without a response.
vote_feature_commit_unhandled(w) ==
  /\ pc[w] = "commit" /\ req[w].op = "vote"
  /\ IF CommitRejected(w) \/ ForeignKeyViolation(req[w].current_user_id)
       THEN /\ pc' = [pc EXCEPT ![w] = "raised"]
            /\ UNCHANGED <<features, votes, resp, loc>>
       ELSE /\ votes' = InsertVote(w)
            /\ features' = FlushVoteCount(w, VoteCountAfterVote(w))
            /\ pc' = [pc EXCEPT ![w] = "return"]
            /\ UNCHANGED <<resp, loc>>
  /\ UNCHANGED <<req, store0, fixed>>

\* vote_feature, lines 91-98: db.commit().  A violated uniqueness
\* constraint raises IntegrityError, the transaction rolls back, and
\* integrity_error_handler answers 400 duplicate_vote_error; a violated
\* foreign key raises IntegrityError too, answered 500 integrity_error.
vote_feature_commit(w) ==
  /\ pc[w] = "commit" /\ req[w].op = "vote"
  /\ IF CommitRejected(w)
       THEN /\ Respond(w, 400, "duplicate_vote_error", -1)
            /\ UNCHANGED <<features, votes>>
     ELSE IF ForeignKeyViolation(req[w].current_user_id)
       THEN /\ Respond(w, 500, "integrity_error", -1)
            /\ UNCHANGED <<features, votes>>
       ELSE /\ votes' = InsertVote(w)
            /\ features' = FlushVoteCount(w, VoteCountAfterVote(w))
            /\ pc' = [pc EXCEPT ![w] = "return"]
            /\ UNCHANGED <<resp, loc>>
  /\ UNCHANGED <<req, store0, fixed>>

\* Mutant: the response carries the vote_count loaded before the increment.
vote_feature_return_stale(w) ==
  /\ pc[w] = "return" /\ req[w].op = "vote"
  /\ Respond(w, 201, "ok", loc[w].vote_count)
  /\ UNCHANGED <<features, votes, req, store0, fixed>>

\* vote_feature, line 100: the commit expired the feature, so
\* feature.vote_count is read again from the store.
vote_feature_return(w) ==
  /\ pc[w] = "return" /\ req[w].op = "vote"
  /\ Respond(w, 201, "ok", features[req[w].feature_id].vote_count)
  /\ UNCHANGED <<features, votes, req, store0, fixed>>

\* Mutant: the caller's vote is looked for before the feature.
remove_vote_get_votefirst(w) ==
  /\ pc[w] = "get_feature" /\ req[w].op = "remove"
  /\ IF req[w].feature_id <= 0
       THEN Respond(w, 400, "HTTP_400", -1)
     ELSE IF VoteRows(req[w].current_user_id, req[w].feature_id) = {}
       THEN Respond(w, 404, "VOTE_NOT_FOUND", -1)
     ELSE IF ~FeatureExists(req[w].feature_id)
       THEN Respond(w, 404, "FEATURE_NOT_FOUND", -1)
     ELSE /\ loc' = LoadFeature(w)
          /\ pc' = [pc EXCEPT ![w] = "check_vote"]
          /\ UNCHANGED resp
  /\ UNCHANGED <<features, votes, req, store0, fixed>>

\* remove_vote, lines 104-109: the id check and the load of the feature.
remove_vote_get(w) ==
  /\ pc[w] = "get_feature" /\ req[w].op = "remove"
  /\ IF req[w].feature_id <= 0
       THEN Respond(w, 400, "HTTP_400", -1)
     ELSE IF ~FeatureExists(req[w].feature_id)
       THEN Respond(w, 404, "FEATURE_NOT_FOUND", -1)
     ELSE /\ loc' = LoadFeature(w)
          /\ pc' = [pc EXCEPT ![w] = "check_vote"]
          /\ UNCHANGED resp
  /\ UNCHANGED <<features, votes, req, store0, fixed>>

\* Mutant: the missing Vote row is not checked for.
remove_vote_check_unchecked(w) ==
  /\ pc[w] = "check_vote" /\ req[w].op = "remove"
  /\ pc' = [pc EXCEPT ![w] = "commit"]
  /\ UNCHANGED <<features, votes, req, loc, resp, store0, fixed>>

\* remove_vote, lines 111-117: the load of the caller's Vote row.
remove_vote_check(w) ==
  /\ pc[w] = "check_vote" /\ req[w].op = "remove"
  /\ IF VoteRows(req[w].current_user_id, req[w].feature_id) = {}
       THEN Respond(w, 404, "VOTE_NOT_FOUND", -1)
       ELSE /\ \E v \in VoteRows(req[w].current_user_id, req[w].feature_id) :
                 loc' = [loc EXCEPT ![w].vote_id = v.id]
            /\ pc' = [pc EXCEPT ![w] = "commit"]
            /\ UNCHANGED resp
  /\ UNCHANGED <<features, votes, req, store0, fixed>>

\* Mutant: the row is not deleted.
DeleteVote_kept(w) == votes

\* db.delete(db_vote) (line 119) as db.commit() flushes it: DELETE of the
\* row with the loaded primary key; a row already gone matches nothing.
DeleteVote(w) == {v \in votes : v.id # loc[w].vote_id}

\* Mutant: the decrement without its floor.
VoteCountAfterRemove_nofloor(w) == loc[w].vote_count - 1

\* feature.vote_count = max(0, feature.vote_count - 1) (line 120) on the
\* session's copy of the feature.
VoteCountAfterRemove(w) == Max(0, loc[w].vote_count - 1)

\* remove_vote, lines 119-121: db.commit().
remove_vote_commit(w) ==
  /\ pc[w] = "commit" /\ req[w].op = "remove"
  /\ votes' = DeleteVote(w)
  /\ features' = FlushVoteCount(w, VoteCountAfterRemove(w))
  /\ pc' = [pc EXCEPT ![w] = "return"]
  /\ UNCHANGED <<req, loc, resp, store0, fixed>>

\* remove_vote, line 123: feature.vote_count is read again from the store.
remove_vote_return(w) ==
  /\ pc[w] = "return" /\ req[w].op = "remove"
  /\ Respond(w, 200, "ok", features[req[w].feature_id].vote_count)
  /\ UNCHANGED <<features, votes, req, store0, fixed>>

\* read_feature, lines 52-56: the load of the feature, answered 200 with
\* the feature or 404.  The handler has no check of the id.
read_feature(w) ==
  /\ pc[w] = "get_feature" /\ req[w].op = "read"
  /\ IF ~FeatureExists(req[w].feature_id)
       THEN Respond(w, 404, "FEATURE_NOT_FOUND", -1)
     ELSE IF ~Feature(features[req[w].feature_id])
       THEN Respond(w, 500, "UNEXPECTED_ERROR", -1)
     ELSE Respond(w, 200, "ok", features[req[w].feature_id].vote_count)
  /\ UNCHANGED <<features, votes, req, store0, fixed>>

\* Mutant: the feature looked up without the check of the id.
update_feature_get_unchecked(w) ==
  /\ pc[w] = "get_feature" /\ req[w].op = "update"
  /\ IF ~FeatureExists(req[w].feature_id)
       THEN Respond(w, 404, "FEATURE_NOT_FOUND", -1)
     ELSE /\ loc' = LoadFeature(w)
          /\ pc' = [pc EXCEPT ![w] = "commit"]
          /\ UNCHANGED resp
  /\ UNCHANGED <<features, votes, req, store0, fixed>>

\* update_feature, lines 60-65: the id check and the load of the feature.
update_feature_get(w) ==
  /\ pc[w] = "get_feature" /\ req[w].op = "update"
  /\ IF req[w].feature_id <= 0
       THEN Respond(w, 400, "HTTP_400", -1)
     ELSE IF ~FeatureExists(req[w].feature_id)
       THEN Respond(w, 404, "FEATURE_NOT_FOUND", -1)
     ELSE /\ loc' = LoadFeature(w)
          /\ pc' = [pc EXCEPT ![w] = "commit"]
          /\ UNCHANGED resp
  /\ UNCHANGED <<features, votes, req, store0, fixed>>

\* feature.dict(exclude_unset=True) (line 67): the keys the request set,
\* those set to null included.
SetKeys(body) == {k \in DOMAIN body : body[k].kind # "unset"}

\* Mutant: the body taken without exclude_unset, every field it lacks
\* coming as None.
AttrAfterUpdate_replace(w, k) ==
  IF k \in SetKeys(input[w].body) THEN input[w].body[k] ELSE Null(loc[w][k])

\* setattr(db_feature, key, value) for the keys set (lines 67-68), on the
\* session's copy of the feature: the attribute's value after the loop.
AttrAfterUpdate(w, k) ==
  IF k \in SetKeys(input[w].body) THEN input[w].body[k] ELSE Value(loc[w][k])

\* Mutant: vote_count kept out of what an update writes.
Dirty_novotecount(w) ==
  {k \in DOMAIN input[w].body \ {"vote_count"} : AttrAfterUpdate(w, k) # Value(loc[w][k])}

\* The columns the flush writes: those whose attribute differs from the
\* loaded value.
Dirty(w) ==
  {k \in DOMAIN input[w].body : AttrAfterUpdate(w, k) # Value(loc[w][k])}

\* Whether the store rejects the UPDATE: title, description and vote_count
\* are nullable=False.
NotNullViolation(w) == \E k \in Dirty(w) : AttrAfterUpdate(w, k).kind = "null"

\* Mutant: the UPDATE writes every column of the session's copy.
FlushFeature_allcolumns(w) ==
  [features EXCEPT ![req[w].feature_id] =
     [c \in DOMAIN @ |-> IF c \in DOMAIN input[w].body
                           THEN AttrAfterUpdate(w, c).value ELSE @[c]]]

\* The features table after the UPDATE of the dirty columns.
FlushFeature(w) ==
  [features EXCEPT ![req[w].feature_id] =
     [c \in DOMAIN @ |-> IF c \in Dirty(w) THEN AttrAfterUpdate(w, c).value ELSE @[c]]]

\* update_feature, lines 67-70: the setattr loop and db.commit().  A
\* rejected UPDATE raises IntegrityError, answered 500 integrity_error.
update_feature_commit(w) ==
  /\ pc[w] = "commit" /\ req[w].op = "update"
  /\ IF NotNullViolation(w)
       THEN /\ Respond(w, 500, "integrity_error", -1)
            /\ UNCHANGED features
       ELSE /\ features' = FlushFeature(w)
            /\ pc' = [pc EXCEPT ![w] = "return"]
            /\ UNCHANGED <<resp, loc>>
  /\ UNCHANGED <<votes, req, store0, fixed>>

\* update_feature, lines 71-72: db.refresh(db_feature) and the response,
\* which the stored feature has to pass the response model for.
update_feature_return(w) ==
  /\ pc[w] = "return" /\ req[w].op = "update"
  /\ IF Feature(features[req[w].feature_id])
       THEN Respond(w, 200, "ok", features[req[w].feature_id].vote_count)
       ELSE Respond(w, 500, "UNEXPECTED_ERROR", -1)
  /\ UNCHANGED <<features, votes, req, store0, fixed>>

\* One statement of a running handler.
Step(w) ==
  \/ vote_feature_get(w)
  \/ vote_feature_check(w)
  \/ vote_feature_commit(w)
  \/ vote_feature_return(w)
  \/ remove_vote_get(w)
  \/ remove_vote_check(w)
  \/ remove_vote_commit(w)
  \/ remove_vote_return(w)

\* A votes table holding one row for each (user, feature) pair of P, keyed
\* in the order the rows were inserted.
VotesOf(P) ==
  {[id |-> Cardinality({q \in P : q[1] <= p[1]}),
    user_id |-> p[1], feature_id |-> p[2]] : p \in P}

\* The requests a group aimed at feature_id f may hold, in a fixed order.
Requests(f) ==
  {[op |-> op, current_user_id |-> u, feature_id |-> f] : op \in Ops, u \in UserIds}
ReqRank(r) == (IF r.op = "vote" THEN 0 ELSE 1) * NumUsers + r.current_user_id

\* Feature g as user 1 created it, with the counter at c.
StoredFeature(g, c) ==
  [title |-> FirstTitle, description |-> FirstDescription, author_id |-> 1,
   created_at |-> g, vote_count |-> c]

\* A group of NumWorkers requests for one feature_id has arrived and none
\* has run a statement yet.  The store is one that earlier requests left:
\* the votes rows of the feature respect the uniqueness constraint, and its
\* counter is one that votes and removals (run alone or overlapping)
\* produce; the other features are as created.  Workers are
\* interchangeable, so the group is listed in the order of ReqRank.
InitRace ==
  /\ users = StoredUsers
  /\ foreign_keys = FALSE
  /\ input = [w \in Workers |-> NoInput]
  /\ \E nf \in 0..MaxFeatures, f \in FeatureIds :
       /\ \E P \in SUBSET (UserIds \X ({f} \cap (1..nf))) : votes = VotesOf(P)
       /\ \E c \in 0..NumUsers :
            features = [g \in 1..nf |-> StoredFeature(g, IF g = f THEN c ELSE 0)]
       /\ req \in [Workers -> Requests(f)]
  /\ \A w \in Workers : w + 1 \in Workers => ReqRank(req[w]) <= ReqRank(req[w + 1])
  /\ pc = [w \in Workers |-> "get_feature"]
  /\ loc = [w \in Workers |-> NoLoc]
  /\ resp = [w \in Workers |-> NoResp]
  /\ listing = [w \in Workers |-> NoListing]
  /\ store0 = store

\* The statements of the group's requests interleave freely.
Next == \E w \in Workers : Step(w)

Spec == InitRace /\ [][Next]_vars

\* Requests executed one at a time; the features are user 1's submissions.
NextSeq ==
  \/ create_feature(1, FirstTitle, FirstDescription)
  \/ \E op \in Ops, u \in UserIds, f \in FeatureIds : ArriveSeq(op, u, f)
  \/ Step(1)

SpecSeq == Init /\ [][NextSeq]_vars

\* One statement of a running read_feature or update_feature handler.
StepCatalog(w) ==
  \/ read_feature(w)
  \/ update_feature_get(w)
  \/ update_feature_commit(w)
  \/ update_feature_return(w)

\* The callers of the catalog specification: the users and an identity
\* that is the id of no user.
CallerIds == 1..(NumUsers + 1)

\* The vote_count values FeatureUpdate bodies carry (vote_count: Optional[int]).
VoteCountInputs == (0 - 1)..NumUsers

\* FeatureUpdate bodies.
Bodies ==
  [title : {Unset(<< >>), Null(<< >>)} \cup {Value(t) : t \in Titles},
   description : {Unset(<< >>), Null(<< >>)} \cup {Value(d) : d \in Descriptions},
   vote_count : {Unset(0), Null(0)} \cup {Value(c) : c \in VoteCountInputs}]

\* The requests of the catalog specification for feature_id f, with their bodies.
CatalogRequests(f) ==
  {<<[op |-> op, current_user_id |-> u, feature_id |-> f], NoBody>> :
      op \in Ops, u \in CallerIds}
  \cup {<<[op |-> "read", current_user_id |-> 0, feature_id |-> f], NoBody>>}
  \cup {<<[op |-> "update", current_user_id |-> 0, feature_id |-> f], b>> : b \in Bodies}

\* A store earlier requests left, with nf features: feature f, where
\* stored, has any title, any counter an update or the ledger wrote and
\* votes of any users; the other features are as created.  The store is
\* the default one (core/database.py: sqlite, which does not enforce
\* foreign keys unless told to) or one that enforces them.
CatalogStore(nf, f) ==
  /\ foreign_keys \in BOOLEAN
  /\ users = StoredUsers
  /\ \E P \in SUBSET (UserIds \X ({f} \cap (1..nf))) : votes = VotesOf(P)
  /\ \E c \in VoteCountInputs, t \in Titles :
       features = [g \in 1..nf |->
                     IF g = f THEN [StoredFeature(g, c) EXCEPT !.title = t]
                              ELSE StoredFeature(g, 0)]

\* Either one request is pending on a catalog that is full, or none is and
\* the catalog has room, so that the next call is a create_feature.
InitCatalog ==
  /\ \/ \E f \in 0..(MaxFeatures + 1) :
          /\ CatalogStore(MaxFeatures, f)
          /\ \E r \in CatalogRequests(f) :
               /\ req = [w \in Workers |-> IF w = 1 THEN r[1] ELSE NoReq]
               /\ input = [w \in Workers |-> IF w = 1 THEN [NoInput EXCEPT !.body = r[2]]
                                                      ELSE NoInput]
          /\ pc = [w \in Workers |-> IF w = 1 THEN "get_feature" ELSE "idle"]
     \/ \E nf \in 0..(MaxFeatures - 1), f \in 0..(MaxFeatures - 1) :
          /\ CatalogStore(nf, f)
          /\ req = [w \in Workers |-> NoReq]
          /\ input = [w \in Workers |-> NoInput]
          /\ pc = [w \in Workers |-> "idle"]
  /\ loc = [w \in Workers |-> NoLoc]
  /\ resp = [w \in Workers |-> NoResp]
  /\ listing = [w \in Workers |-> NoListing]
  /\ store0 = store

NextCatalog ==
  \/ \E u \in CallerIds, t \in Titles, d \in Descriptions : create_feature(u, t, d)
  \/ Step(1)
  \/ StepCatalog(1)

SpecCatalog == InitCatalog /\ [][NextCatalog]_vars

\* The X-User-ID headers tried: absent, or any string of at most
\* MaxHeaderLen characters.
Headers ==
  {NoHeader} \cup
  {[present |-> TRUE, value |-> s] : s \in UNION {[1..n -> Chars] : n \in 0..MaxHeaderLen}}

\* One vote_feature or remove_vote request has arrived with its header and
\* nothing of it has run.  The catalog is full, the features are as
\* created but for the votes of users on the feature aimed at, and the
\* store is the default one or one that enforces foreign keys.
InitAuth ==
  /\ foreign_keys \in BOOLEAN
  /\ users = StoredUsers
  /\ \E f \in 0..(MaxFeatures + 1) :
       /\ \E P \in SUBSET (UserIds \X ({f} \cap (1..MaxFeatures))) :
            /\ votes = VotesOf(P)
            /\ features = [g \in 1..MaxFeatures |->
                             StoredFeature(g, IF g = f THEN Cardinality(P) ELSE 0)]
       /\ \E op \in Ops, h \in Headers :
            /\ req = [w \in Workers |->
                        IF w = 1 THEN [op |-> op, current_user_id |-> 0, feature_id |-> f]
                                 ELSE NoReq]
            /\ input = [w \in Workers |->
                          IF w = 1 THEN [NoInput EXCEPT !.x_user_id = h] ELSE NoInput]
  /\ pc = [w \in Workers |-> IF w = 1 THEN "auth" ELSE "idle"]
  /\ loc = [w \in Workers |-> NoLoc]
  /\ resp = [w \in Workers |-> NoResp]
  /\ listing = [w \in Workers |-> NoListing]
  /\ store0 = store

NextAuth ==
  \/ resolve_current_user(1)
  \/ Step(1)

SpecAuth == InitAuth /\ [][NextAuth]_vars


\* The longest run of blanks tried around a title or description.
MaxPad == 1

\* A string of n letters with l blanks before and r blanks after.
Padded(l, n, r) == Text(" ", l) \o Text("a", n) \o Text(" ", r)

\* The titles and descriptions tried: cores from empty to the minimum
\* length and around the maximum length, padded with blanks.
TitleInputs ==
  {Padded(l, n, r) : l \in 0..MaxPad, r \in 0..MaxPad,
                     n \in (0..title_min_length)
                           \cup ((title_max_length - 1)..(title_max_length + 1))}
DescriptionInputs ==
  {Padded(l, n, r) : l \in 0..MaxPad, r \in 0..MaxPad,
                     n \in {0, description_min_length - 1, description_min_length,
                            description_max_length, description_max_length + 1}}

\* The <<title, description>> pairs tried: one of the two is any of the
\* strings above, the other passes FeatureCreate unchanged.
TextInputs ==
  {<<t, FirstDescription>> : t \in TitleInputs}
  \cup {<<FirstTitle, d>> : d \in DescriptionInputs}

\* FeatureUpdate bodies that carry a title or a description.
TextBodies ==
  {[NoBody EXCEPT !.title = Value(t)] : t \in TitleInputs}
  \cup {[NoBody EXCEPT !.description = Value(d)] : d \in DescriptionInputs}

\* Features as created, and either one update_feature request pending on a
\* catalog that is full, or none pending and room for one more feature, so
\* that the next call is a create_feature.
InitText ==
  /\ foreign_keys = FALSE
  /\ users = StoredUsers
  /\ votes = {}
  /\ \/ /\ features = [g \in 1..MaxFeatures |-> StoredFeature(g, 0)]
        /\ \E b \in TextBodies :
             input = [w \in Workers |-> IF w = 1 THEN [NoInput EXCEPT !.body = b]
                                                 ELSE NoInput]
        /\ req = [w \in Workers |->
                    IF w = 1 THEN [op |-> "update", current_user_id |-> 0, feature_id |-> 1]
                             ELSE NoReq]
        /\ pc = [w \in Workers |-> IF w = 1 THEN "get_feature" ELSE "idle"]
     \/ /\ features = [g \in 1..(MaxFeatures - 1) |-> StoredFeature(g, 0)]
        /\ input = [w \in Workers |-> NoInput]
        /\ req = [w \in Workers |-> NoReq]
        /\ pc = [w \in Workers |-> "idle"]
  /\ loc = [w \in Workers |-> NoLoc]
  /\ resp = [w \in Workers |-> NoResp]
  /\ listing = [w \in Workers |-> NoListing]
  /\ store0 = store

NextText ==
  \/ \E i \in TextInputs : create_feature(1, i[1], i[2])
  \/ update_feature_get(1)
  \/ update_feature_commit(1)
  \/ update_feature_return(1)

SpecText == InitText /\ [][NextText]_vars


\* The largest page number tried.
MaxPage == 3

\* The upper limit of page_size (features.py line 30, pagination.py line 9).
page_size_max == 100

\* The page and page_size parameters tried: 0 is below the lower limit,
\* and page_size_max + 1 is above the upper one.
PageInputs == 0..MaxPage
PageSizeInputs == (0..MaxFeatures) \cup {page_size_max, page_size_max + 1}

\* Mutant: page_size without its upper limit.
ValidQuery_nocap(q) == q.page >= 1 /\ q.page_size >= 1

\* Query(ge=1) of page and Query(ge=1, le=100) of page_size: a request
\* that fails them is answered by validation_exception_handler.
ValidQuery(q) == q.page >= 1 /\ q.page_size >= 1 /\ q.page_size <= page_size_max

\* PaginationParams.offset and PaginationParams.limit.
Offset(q) == (q.page - 1) * q.page_size
Limit(q) == q.page_size

Min(a, b) == IF a <= b THEN a ELSE b

\* Mutant: the rows ordered by vote_count ascending.
Orderings_ascending ==
  {o \in [DOMAIN features -> DOMAIN features] :
     /\ \A i, j \in DOMAIN features : i # j => o[i] # o[j]
     /\ \A i, j \in DOMAIN features :
          i < j => features[o[i]].vote_count <= features[o[j]].vote_count}

\* order_by(FeatureModel.vote_count.desc()): the orders the store may
\* return the rows in.  No second key is given, so the store is free in
\* how it orders rows of equal vote_count, anew for every query.
Orderings ==
  {o \in [DOMAIN features -> DOMAIN features] :
     /\ \A i, j \in DOMAIN features : i # j => o[i] # o[j]
     /\ \A i, j \in DOMAIN features :
          i < j => features[o[i]].vote_count >= features[o[j]].vote_count}

\* .offset(pagination.offset).limit(pagination.limit).all() on the rows in
\* order o: the id and vote_count of the rows returned.
PageItems(o, q) ==
  LET first == Offset(q) + 1
      last == Min(Offset(q) + Limit(q), Len(features))
  IN IF first > last THEN << >>
     ELSE [i \in 1..(last - first + 1) |->
             [id |-> o[first + i - 1],
              vote_count |-> features[o[first + i - 1]].vote_count]]

\* Mutant: the quotient rounded down.
ceil_floor(a, b) == a \div b

\* math.ceil(a / b) for a >= 0 and b >= 1 (exact for the counts of a
\* table, which are far below 2^53).
ceil(a, b) == IF a % b = 0 THEN a \div b ELSE (a \div b) + 1

\* PaginatedResponse.create(items, total_count, pagination).
PaginatedResponse(items, total_count, q) ==
  LET total_pages == IF total_count > 0 THEN ceil(total_count, q.page_size) ELSE 1
  IN [items |-> items, total_count |-> total_count, page |-> q.page,
      page_size |-> q.page_size, total_pages |-> total_pages,
      has_next |-> q.page < total_pages, has_previous |-> q.page > 1]

\* read_features: the validation of the query parameters, the count of
\* the features, the page of them in order, and the response, which every
\* item has to pass the response model for.
read_features(w) ==
  /\ pc[w] = "list" /\ req[w].op = "list"
  /\ IF ~ValidQuery(input[w].query)
       THEN /\ Respond(w, 422, "validation_error", -1)
            /\ UNCHANGED listing
     ELSE \E o \in Orderings :
            LET items == PageItems(o, input[w].query) IN
            IF \E i \in DOMAIN items : ~Feature(features[items[i].id])
              THEN /\ Respond(w, 500, "UNEXPECTED_ERROR", -1)
                   /\ UNCHANGED listing
              ELSE /\ Respond(w, 200, "ok", -1)
                   /\ listing' = [listing EXCEPT ![w] =
                        PaginatedResponse(items, Len(features), input[w].query)]
  /\ UNCHANGED <<users, features, votes, foreign_keys, input, req, store0>>

\* The votes table of a store where users 1..cs[g] have voted for feature g.
ListVotes(cs) ==
  {[id |-> (p[1] - 1) * NumUsers + p[2], user_id |-> p[2], feature_id |-> p[1]] :
     p \in {q \in (DOMAIN cs) \X UserIds : q[2] <= cs[q[1]]}}

\* The readers of the listing specification.
Readers == {1, 2}

\* A store of up to MaxFeatures features with consistent counters, and two
\* read_features requests pending for pages of one size.
InitList ==
  /\ foreign_keys = FALSE
  /\ users = StoredUsers
  /\ \E nf \in 0..MaxFeatures : \E cs \in [1..nf -> 0..NumUsers] :
       /\ features = [g \in 1..nf |-> StoredFeature(g, cs[g])]
       /\ votes = ListVotes(cs)
  /\ \E p1 \in PageInputs, p2 \in PageInputs, ps \in PageSizeInputs :
       input = [w \in Workers |->
                  IF w = 1 THEN [NoInput EXCEPT !.query = [page |-> p1, page_size |-> ps]]
                  ELSE IF w = 2 THEN [NoInput EXCEPT !.query = [page |-> p2, page_size |-> ps]]
                  ELSE NoInput]
  /\ req = [w \in Workers |->
              IF w \in Readers THEN [op |-> "list", current_user_id |-> 0, feature_id |-> 0]
                               ELSE NoReq]
  /\ pc = [w \in Workers |-> IF w \in Readers THEN "list" ELSE "idle"]
  /\ loc = [w \in Workers |-> NoLoc]
  /\ resp = [w \in Workers |-> NoResp]
  /\ listing = [w \in Workers |-> NoListing]
  /\ store0 = store

NextList == \E w \in Readers : read_features(w)

SpecList == InitList /\ [][NextList]_vars


\* The least length of a username (users.py line 14).
username_min_length == 2

\* str.lower() on the letters of the model.
lower(s) == [i \in DOMAIN s |-> IF s[i] = "A" THEN "a" ELSE s[i]]

\* EmailStr of UserCreate.email: a local part, one "@" and a domain with a
\* dot inside it, made of letters; the value the handler gets has the
\* domain in lower case.
EmailStr(s) ==
  LET ats == {i \in DOMAIN s : s[i] = "@"}
      at == IF ats = {} THEN 0 ELSE CHOOSE i \in ats : TRUE
      local == SubSeq(s, 1, at - 1)
      domain == SubSeq(s, at + 1, Len(s))
      ok == /\ Cardinality(ats) = 1
            /\ \A i \in DOMAIN s : s[i] \in {"a", "A", "@", "."}
            /\ local # << >> /\ \A i \in DOMAIN local : local[i] # "."
            /\ \E i \in DOMAIN domain : domain[i] = "."
            /\ \A i \in DOMAIN domain :
                 domain[i] = "." => /\ i > 1 /\ i < Len(domain)
                                    /\ domain[i + 1] # "."
  IN [ok |-> ok, value |-> IF ok THEN local \o <<"@">> \o lower(domain) ELSE << >>]

\* The usernames tried: up to 3 letters with as many blanks before as after.
UsernameInputs == {Padded(l, n, l) : l \in 0..MaxPad, n \in 0..3}

\* The emails tried: addresses that differ in case only, another address,
\* a string without "@" and one with nothing after it.
EmailInputs ==
  {<<"a", "@", "a", ".", "a">>, <<"A", "@", "a", ".", "a">>,
   <<"a", "a", "@", "a", ".", "a">>, <<"a", "a">>, <<"a", "@">>}

\* UserCreate bodies.
UserInputs == [username : UsernameInputs, email : EmailInputs]

\* The body of a request as create_user gets it from UserCreate.
UserCreate(user) == [username |-> user.username, email |-> EmailStr(user.email).value]

\* Mutant: the length of the username as sent.
UsernameTooShort_untrimmed(username) == Len(username) < username_min_length

\* not user.username or len(user.username.strip()) < 2 (line 14).
UsernameTooShort(username) ==
  username = << >> \/ Len(strip(username)) < username_min_length

\* not user.email or "@" not in user.email (line 17).
EmailWithoutAt(email) == email = << >> \/ \A i \in DOMAIN email : email[i] # "@"

\* Mutant: the email stored as UserCreate gave it.
NewUser_aswritten(user) == [username |-> strip(user.username), email |-> strip(user.email)]

\* UserModel(username=user.username.strip(), email=user.email.strip().lower())
NewUser(user) == [username |-> strip(user.username), email |-> lower(strip(user.email))]

\* The unique indexes ix_users_username and ix_users_email: the columns in
\* which the INSERT of row collides with a stored user.
UniqueViolations(row) ==
  {c \in {"username", "email"} : \E i \in DOMAIN users : users[i][c] = row[c]}

\* Mutant: the IntegrityError passed on as a failure of the store.
ClassifyIntegrityError_raw(column) ==
  [status |-> 500, code |-> "DATABASE_ERROR", message |-> "Internal server error"]

\* except IntegrityError (lines 29-36): the error of the store names the
\* column of the index that failed, and the handler raises
\* InvalidInputException with a message for it, answered 400 INVALID_INPUT.
ClassifyIntegrityError(column) ==
  [status |-> 400, code |-> "INVALID_INPUT",
   message |-> IF column = "username" THEN "Username already exists"
                                      ELSE "Email already exists"]

\* The response of create_user leaves, with the message of its detail.
RespondUser(w, status, code, message) ==
  /\ pc' = [pc EXCEPT ![w] = "done"]
  /\ resp' = [resp EXCEPT ![w] = [status |-> status, code |-> code, vote_count |-> -1,
                                  message |-> message]]

\* create_user: the validation of the body by UserCreate, answered 422,
\* and the checks of lines 14-18, answered 400 INVALID_INPUT.
create_user_validate(w) ==
  /\ pc[w] = "validate" /\ req[w].op = "create_user"
  /\ IF ~EmailStr(input[w].user.email).ok
       THEN RespondUser(w, 422, "validation_error", "Validation failed")
     ELSE IF UsernameTooShort(UserCreate(input[w].user).username)
       THEN RespondUser(w, 400, "INVALID_INPUT",
                        "Username must be at least 2 characters long")
     ELSE IF EmailWithoutAt(UserCreate(input[w].user).email)
       THEN RespondUser(w, 400, "INVALID_INPUT", "Valid email address is required")
     ELSE /\ pc' = [pc EXCEPT ![w] = "commit"]
          /\ UNCHANGED resp
  /\ UNCHANGED <<users, features, votes, foreign_keys, input, req, loc, listing, store0>>

\* create_user, lines 20-36: the INSERT of the user and its commit,
\* answered 201 with the user.  Where an index rejects the row the store
\* reports one of the indexes that failed.
create_user_commit(w) ==
  LET row == NewUser(UserCreate(input[w].user)) IN
  /\ pc[w] = "commit" /\ req[w].op = "create_user"
  /\ IF UniqueViolations(row) # {}
       THEN /\ \E c \in UniqueViolations(row) :
                 RespondUser(w, ClassifyIntegrityError(c).status,
                             ClassifyIntegrityError(c).code,
                             ClassifyIntegrityError(c).message)
            /\ UNCHANGED users
       ELSE /\ users' = Append(users, row)
            /\ RespondUser(w, 201, "ok", "")
  /\ UNCHANGED <<features, votes, foreign_keys, input, req, loc, listing, store0>>

\* The workers of the registration specification.
Creators == {1, 2}

\* Users registered earlier, no features, and two create_user requests
\* that have arrived and not yet run.
InitUsers ==
  /\ foreign_keys = FALSE
  /\ \E n \in 0..NumUsers : users = [i \in 1..n |-> StoredUser(i)]
  /\ features = << >>
  /\ votes = {}
  /\ \E u1 \in UserInputs, u2 \in UserInputs :
       input = [w \in Workers |->
                  IF w = 1 THEN [NoInput EXCEPT !.user = u1]
                  ELSE IF w = 2 THEN [NoInput EXCEPT !.user = u2]
                  ELSE NoInput]
  /\ req = [w \in Workers |->
              IF w \in Creators
                THEN [op |-> "create_user", current_user_id |-> 0, feature_id |-> 0]
                ELSE NoReq]
  /\ pc = [w \in Workers |-> IF w \in Creators THEN "validate" ELSE "idle"]
  /\ loc = [w \in Workers |-> NoLoc]
  /\ resp = [w \in Workers |-> NoResp]
  /\ listing = [w \in Workers |-> NoListing]
  /\ store0 = store

NextUsers == \E w \in Creators : create_user_validate(w) \/ create_user_commit(w)

SpecUsers == InitUsers /\ [][NextUsers]_vars


\* The next request of worker 1, which serves requests one at a time, for
\* the feature the request in flight is aimed at.
ArriveNext(op, u) ==
  /\ Quiescent(1)
  /\ Admitted(op)
  /\ pc' = [pc EXCEPT ![1] = "get_feature"]
  /\ req' = [req EXCEPT ![1] = [op |-> op, current_user_id |-> u,
                                 feature_id |-> req[2].feature_id]]
  /\ resp' = [resp EXCEPT ![1] = NoResp]
  /\ UNCHANGED <<features, votes, loc, store0, fixed>>

\* One request for a stored feature has arrived at worker 2 and has run no
\* statement; worker 1 is free.  The store is one earlier requests left.
InitStale ==
  /\ users = StoredUsers
  /\ foreign_keys = FALSE
  /\ input = [w \in Workers |-> NoInput]
  /\ \E f \in 1..MaxFeatures :
       /\ \E P \in SUBSET (UserIds \X {f}) :
            /\ votes = VotesOf(P)
            /\ features = [g \in 1..MaxFeatures |->
                             StoredFeature(g, IF g = f THEN Cardinality(P) ELSE 0)]
       /\ \E r \in Requests(f) : req = [w \in Workers |-> IF w = 2 THEN r ELSE NoReq]
  /\ pc = [w \in Workers |-> IF w = 2 THEN "get_feature" ELSE "idle"]
  /\ loc = [w \in Workers |-> NoLoc]
  /\ resp = [w \in Workers |-> NoResp]
  /\ listing = [w \in Workers |-> NoListing]
  /\ store0 = store

\* The request in flight runs while worker 1 serves requests in turn.
NextStale ==
  \/ \E op \in Ops, u \in UserIds : ArriveNext(op, u)
  \/ Step(1)
  \/ Step(2)

SpecStale == InitStale /\ [][NextStale]_vars


\* FeatureUpdate bodies that do not carry vote_count.
BodiesWithoutCount == {b \in Bodies : b.vote_count.kind = "unset"}

\* An update_feature request without vote_count (worker 1) and a
\* vote_feature or remove_vote request (worker 2) for one stored feature
\* have arrived and neither has run a statement.  The store is consistent.
InitMixed ==
  /\ users = StoredUsers
  /\ foreign_keys = FALSE
  /\ \E f \in 1..MaxFeatures :
       /\ \E P \in SUBSET (UserIds \X {f}) :
            /\ votes = VotesOf(P)
            /\ features = [g \in 1..MaxFeatures |->
                             StoredFeature(g, IF g = f THEN Cardinality(P) ELSE 0)]
       /\ \E r \in Requests(f) :
            req = [w \in Workers |->
                     IF w = 1 THEN [op |-> "update", current_user_id |-> 0, feature_id |-> f]
                     ELSE IF w = 2 THEN r ELSE NoReq]
  /\ \E b \in BodiesWithoutCount :
       input = [w \in Workers |-> IF w = 1 THEN [NoInput EXCEPT !.body = b] ELSE NoInput]
  /\ pc = [w \in Workers |-> IF w \in {1, 2} THEN "get_feature" ELSE "idle"]
  /\ loc = [w \in Workers |-> NoLoc]
  /\ resp = [w \in Workers |-> NoResp]
  /\ listing = [w \in Workers |-> NoListing]
  /\ store0 = store

\* The statements of the two requests interleave freely.
NextMixed ==
  \/ update_feature_get(1)
  \/ update_feature_commit(1)
  \/ update_feature_return(1)
  \/ Step(2)

SpecMixed == InitMixed /\ [][NextMixed]_vars

-----------------------------------------------------------------------------
(* Two overlapping requests under the scheduling of the server.             *)

\* One statement of a running vote_feature, remove_vote or update_feature
\* handler.
StepFair(w) ==
  \/ Step(w)
  \/ update_feature_get(w)
  \/ update_feature_commit(w)
  \/ update_feature_return(w)

\* The two requests.
Pair == {1, 2}

\* Two requests for one feature_id have arrived and neither has run a
\* statement: a vote_feature, remove_vote or update_feature request
\* (worker 1; an update carries a title, a description, both or neither)
\* and a vote_feature or remove_vote request (worker 2).  The feature is
\* stored or not, and the store is consistent.
InitFair ==
  /\ users = StoredUsers
  /\ foreign_keys = FALSE
  /\ \E nf \in 0..MaxFeatures, f \in FeatureIds :
       /\ \E P \in SUBSET (UserIds \X ({f} \cap (1..nf))) :
            /\ votes = VotesOf(P)
            /\ features = [g \in 1..nf |->
                             StoredFeature(g, IF g = f THEN Cardinality(P) ELSE 0)]
       /\ \E r1 \in Requests(f) \cup {[op |-> "update", current_user_id |-> 0,
                                       feature_id |-> f]},
             r2 \in Requests(f) :
            req = [w \in Workers |-> IF w = 1 THEN r1 ELSE IF w = 2 THEN r2 ELSE NoReq]
  /\ \E b \in BodiesWithoutCount :
       input = [w \in Workers |->
                  IF w = 1 /\ req[1].op = "update"
                    THEN [NoInput EXCEPT !.body = b] ELSE NoInput]
  /\ pc = [w \in Workers |-> IF w \in Pair THEN "get_feature" ELSE "idle"]
  /\ loc = [w \in Workers |-> NoLoc]
  /\ resp = [w \in Workers |-> NoResp]
  /\ listing = [w \in Workers |-> NoListing]
  /\ store0 = store

NextFair == \E w \in Pair : StepFair(w)

\* Each request runs in a thread of its own and every statement of a
\* handler returns (the calls to the store are synchronous), so a request
\* that can take a step eventually takes it.
FairSpec == InitFair /\ [][NextFair]_vars /\ \A w \in Pair : WF_vars(StepFair(w))

-----------------------------------------------------------------------------
(* The exception handlers of main.py: what a request answers when its     *)
(* handler raises.                                                          *)

\* The classes of the exceptions a request handler lets escape: the
\* FeatureVotingException family, the three classes main.py registers
\* besides it, and "Exception" for an exception of any other class.
FeatureVotingClasses ==
  {"FeatureVotingException", "DuplicateVoteException", "FeatureNotFoundException",
   "VoteNotFoundException", "UserNotFoundException", "InvalidInputException",
   "DatabaseException"}
ExceptionClasses ==
  FeatureVotingClasses \cup {"RequestValidationError", "IntegrityError",
                             "HTTPException", "Exception"}

\* The messages exceptions are raised with: the ones users.py gives a
\* DatabaseException, the default of the class, what the driver reports,
\* and the empty message.
Messages ==
  {"", "Database operation failed", "Failed to retrieve users",
   "Failed to create user due to data constraint",
   "UNIQUE constraint failed: votes._user_feature_vote"}

\* The status codes the handlers raise HTTPException with.
HttpStatuses == {400, 401, 404}

Exceptions ==
  {[class |-> c, message |-> m, status_code |-> s] :
     c \in ExceptionClasses \ {"HTTPException"}, m \in Messages, s \in {0}}
  \cup {[class |-> "HTTPException", message |-> m, status_code |-> s] :
          m \in Messages, s \in HttpStatuses}

NoException == [class |-> "none", message |-> "", status_code |-> 0]

\* str(exc) of an exception constructed with one argument.
str(exc) == exc.message

\* "_user_feature_vote" in str(exc.orig)
NamesVoteConstraint(m) == m = "UNIQUE constraint failed: votes._user_feature_vote"

validation_exception_handler(exc) ==
  [status |-> 422, code |-> "validation_error", detail |-> "Validation failed"]

integrity_error_handler(exc) ==
  IF NamesVoteConstraint(str(exc))
    THEN [status |-> 400, code |-> "duplicate_vote_error",
          detail |-> "User has already voted for this feature"]
    ELSE [status |-> 500, code |-> "integrity_error",
          detail |-> "Database constraint violation"]

\* error_code as the constructor of each class sets it; the base class is
\* raised without one.
error_code(exc) ==
  CASE exc.class = "DuplicateVoteException"   -> "DUPLICATE_VOTE"
    [] exc.class = "FeatureNotFoundException" -> "FEATURE_NOT_FOUND"
    [] exc.class = "VoteNotFoundException"    -> "VOTE_NOT_FOUND"
    [] exc.class = "UserNotFoundException"    -> "USER_NOT_FOUND"
    [] exc.class = "InvalidInputException"    -> "INVALID_INPUT"
    [] exc.class = "DatabaseException"        -> "DATABASE_ERROR"
    [] OTHER                                  -> "None"

\* exc.message or str(exc)
error_response(exc) == IF exc.message # "" THEN exc.message ELSE str(exc)

\* Mutant: the DatabaseException branch answers with error_response, as the
\* branches above it do.
feature_voting_exception_handler_echo(exc) ==
  CASE exc.class = "DuplicateVoteException" ->
         [status |-> 409, code |-> error_code(exc), detail |-> error_response(exc)]
    [] exc.class \in {"FeatureNotFoundException", "VoteNotFoundException",
                      "UserNotFoundException"} ->
         [status |-> 404, code |-> error_code(exc), detail |-> error_response(exc)]
    [] exc.class = "InvalidInputException" ->
         [status |-> 400, code |-> error_code(exc), detail |-> error_response(exc)]
    [] exc.class = "DatabaseException" ->
         [status |-> 500, code |-> error_code(exc), detail |-> error_response(exc)]
    [] OTHER ->
         [status |-> 500, code |-> "INTERNAL_ERROR", detail |-> "Internal server error"]

feature_voting_exception_handler(exc) ==
  CASE exc.class = "DuplicateVoteException" ->
         [status |-> 409, code |-> error_code(exc), detail |-> error_response(exc)]
    [] exc.class \in {"FeatureNotFoundException", "VoteNotFoundException",
                      "UserNotFoundException"} ->
         [status |-> 404, code |-> error_code(exc), detail |-> error_response(exc)]
    [] exc.class = "InvalidInputException" ->
         [status |-> 400, code |-> error_code(exc), detail |-> error_response(exc)]
    [] exc.class = "DatabaseException" ->
         [status |-> 500, code |-> "DATABASE_ERROR", detail |-> "Internal server error"]
    [] OTHER ->
         [status |-> 500, code |-> "INTERNAL_ERROR", detail |-> "Internal server error"]

\* f"HTTP_{exc.status_code}"
HttpErrorCode(s) ==
  CASE s = 400 -> "HTTP_400"
    [] s = 401 -> "HTTP_401"
    [] s = 404 -> "HTTP_404"

http_exception_handler(exc) ==
  [status |-> exc.status_code, code |-> HttpErrorCode(exc.status_code),
   detail |-> exc.message]

generic_exception_handler(exc) ==
  [status |-> 500, code |-> "UNEXPECTED_ERROR", detail |-> "An unexpected error occurred"]

\* The handler registered for the nearest class of the exception
\* (main.py, lines 19-23).
HandleException(exc) ==
  CASE exc.class = "RequestValidationError" -> validation_exception_handler(exc)
    [] exc.class = "IntegrityError"         -> integrity_error_handler(exc)
    [] exc.class \in FeatureVotingClasses   -> feature_voting_exception_handler(exc)
    [] exc.class = "HTTPException"          -> http_exception_handler(exc)
    [] OTHER                                -> generic_exception_handler(exc)

\* A request whose handler raised req[w].exc is answered by the handler of
\* the exception.
exception_handler(w) ==
  /\ pc[w] = "raised" /\ req[w].op = "raise"
  /\ LET r == HandleException(req[w].exc)
     IN  RespondUser(w, r.status, r.code, r.detail)
  /\ UNCHANGED <<features, votes, req, loc, store0, fixed>>

\* The two failing requests.
Failing == {1, 2}

\* Two requests, each with an exception raised, on a store of two users
\* and no feature.
InitErrors ==
  /\ users = StoredUsers
  /\ foreign_keys = FALSE
  /\ input = [w \in Workers |-> NoInput]
  /\ features = << >>
  /\ votes = {}
  /\ \E e \in [Failing -> Exceptions] :
       req = [w \in Workers |->
                [op |-> IF w \in Failing THEN "raise" ELSE "none",
                 current_user_id |-> 0, feature_id |-> 0,
                 exc |-> IF w \in Failing THEN e[w] ELSE NoException]]
  /\ pc = [w \in Workers |-> IF w \in Failing THEN "raised" ELSE "idle"]
  /\ loc = [w \in Workers |-> NoLoc]
  /\ resp = [w \in Workers |-> NoResp]
  /\ listing = [w \in Workers |-> NoListing]
  /\ store0 = store

NextErrors == \E w \in Failing : exception_handler(w)

SpecErrors == InitErrors /\ [][NextErrors]_vars

-----------------------------------------------------------------------------
(* The votes router (routes/votes.py), which main.py does not include:     *)
(* one create_vote and one delete_vote request, each served alone.          *)

\* The feature ids VoteCreate bodies carry: the stored features and one id
\* above them.
LegacyFeatureIds == 1..(MaxFeatures + 1)

\* The vote ids delete_vote is called with.
VoteIds == 1..MaxVoteId

\* Whether the store rejects a votes row for (u, f): the foreign keys
\* votes.user_id and votes.feature_id, where enforced.
VoteForeignKeyViolation(u, f) == ForeignKeyViolation(u) \/ (foreign_keys /\ ~FeatureExists(f))

\* The response of the votes router: status, error code, and the id of the
\* Vote in the body (0 when the body has none).
RespondVote(w, status, code, id) ==
  /\ pc' = [pc EXCEPT ![w] = "done"]
  /\ resp' = [resp EXCEPT ![w] = [status |-> status, code |-> code, vote_count |-> -1,
                                  vote_id |-> id]]

\* Mutant: the Vote row added without the counter of its feature raised.
CountAfterCreate_kept(f) == features

\* create_vote, lines 24-28: feature.vote_count += 1 where the feature
\* is stored.
CountAfterCreate(f) ==
  IF FeatureExists(f)
    THEN [features EXCEPT ![f].vote_count = @ + 1]
    ELSE features

\* create_vote (lines 11-33) for current_user_id u and body {feature_id: f},
\* as the first of the two requests.  An existing row of the pair is
\* answered 400 by http_exception_handler; a row the store rejects at
\* db.commit() is answered 500 by integrity_error_handler; otherwise the
\* row and the raised counter are committed together and the response is
\* the new Vote.
create_vote(u, f) ==
  /\ pc[1] = "idle"
  /\ req' = [req EXCEPT ![1] = [op |-> "create_vote", current_user_id |-> u,
                                feature_id |-> f, vote_id |-> 0]]
  /\ store0' = store
  /\ IF VoteRows(u, f) # {}
       THEN /\ RespondVote(1, 400, "HTTP_400", 0)
            /\ UNCHANGED <<features, votes>>
     ELSE IF VoteForeignKeyViolation(u, f)
       THEN /\ RespondVote(1, 500, "integrity_error", 0)
            /\ UNCHANGED <<features, votes>>
       ELSE /\ votes' = votes \cup {[id |-> NewVoteId, user_id |-> u, feature_id |-> f]}
            /\ features' = CountAfterCreate(f)
            /\ RespondVote(1, 201, "ok", NewVoteId)
  /\ UNCHANGED <<loc, fixed>>

\* Mutant: the query of delete_vote without its user_id filter.
LegacyVoteRows_anyuser(u, id) == {v \in votes : v.id = id}

\* delete_vote, lines 37-40: the Vote rows with the id and the user_id.
LegacyVoteRows(u, id) == {v \in votes : v.id = id /\ v.user_id = u}

\* delete_vote, lines 45-47: max(0, feature.vote_count - 1) where the
\* feature of the row is stored.
CountAfterDelete(f) ==
  IF FeatureExists(f)
    THEN [features EXCEPT ![f].vote_count = Max(0, @ - 1)]
    ELSE features

\* delete_vote (lines 35-50) for current_user_id u and path parameter id,
\* as the second of the two requests.  No row of the id and the user is
\* answered 404 by http_exception_handler; otherwise the lowered counter
\* and the DELETE of the row are committed together and the response is
\* 204 without a body.
delete_vote(u, id) ==
  /\ pc[2] = "idle"
  /\ req' = [req EXCEPT ![2] = [op |-> "delete_vote", current_user_id |-> u,
                                feature_id |-> 0, vote_id |-> id]]
  /\ store0' = store
  /\ IF LegacyVoteRows(u, id) = {}
       THEN /\ RespondVote(2, 404, "HTTP_404", 0)
            /\ UNCHANGED <<features, votes>>
       ELSE LET db_vote == CHOOSE v \in LegacyVoteRows(u, id) : TRUE
            IN  /\ features' = CountAfterDelete(db_vote.feature_id)
                /\ votes' = votes \ {db_vote}
                /\ RespondVote(2, 204, "ok", 0)
  /\ UNCHANGED <<loc, fixed>>

\* A store that earlier requests, each served alone, left: the counter of
\* every feature equals the number of its Vote rows; its foreign keys are
\* enforced or not.  Neither request has arrived.
InitLegacy ==
  /\ users = StoredUsers
  /\ foreign_keys \in BOOLEAN
  /\ input = [w \in Workers |-> NoInput]
  /\ \E nf \in 0..MaxFeatures : \E cs \in [1..nf -> 0..NumUsers] :
       /\ features = [g \in 1..nf |-> StoredFeature(g, cs[g])]
       /\ votes = ListVotes(cs)
  /\ pc = [w \in Workers |-> "idle"]
  /\ req = [w \in Workers |-> NoReq]
  /\ loc = [w \in Workers |-> NoLoc]
  /\ resp = [w \in Workers |-> NoResp]
  /\ listing = [w \in Workers |-> NoListing]
  /\ store0 = store

NextLegacy ==
  \/ \E u \in CallerIds, f \in LegacyFeatureIds : create_vote(u, f)
  \/ \E u \in CallerIds, id \in VoteIds : delete_vote(u, id)

SpecLegacy == InitLegacy /\ [][NextLegacy]_vars

-----------------------------------------------------------------------------
(* Vocabulary of the properties *)

AllDone == \A w \in Workers : pc[w] = "done"

Succeeded(w) == pc[w] = "done" /\ resp[w].code = "ok"

\* The two ways a duplicate vote is reported: by the pre-check
\* (DuplicateVoteException) and by the constraint (integrity_error_handler).
FailedDuplicate(w) ==
  pc[w] = "done" /\ resp[w].code \in {"DUPLICATE_VOTE", "duplicate_vote_error"}

\* The ledger and the counters agree in store st.
Consistent(st) ==
  \A f \in DOMAIN st.features :
    st.features[f].vote_count = Cardinality({v \in st.votes : v.feature_id = f})

Voted(st, u, f) == \E v \in st.votes : v.user_id = u /\ v.feature_id = f

-----------------------------------------------------------------------------
\* C1: when every call of a one-at-a-time sequence of vote_feature and
\* remove_vote calls has returned, every feature's vote_count equals the
\* number of Vote rows of that feature.
C1_CountMatchesLedger == (\A w \in Workers : Quiescent(w)) => Consistent(store)

\* C1 witness: a removal has just succeeded on a feature that still holds a vote.
C1_Witness ==
  /\ Succeeded(1) /\ req[1].op = "remove"
  /\ features[req[1].feature_id].vote_count = 1
  /\ Consistent(store)

\* C2: no (user_id, feature_id) pair ever has more than one Vote row,
\* whatever the interleaving of the vote_feature calls.
C2_AtMostOneVote ==
  \A u \in UserIds, f \in FeatureIds : Cardinality(VoteRows(u, f)) <= 1

\* C2 witness: two calls for one pair raced past the pre-check and the
\* constraint turned the second away.
C2_Witness ==
  \E w \in Workers, x \in Workers :
    /\ w # x /\ req[w] = req[x] /\ req[w].op = "vote"
    /\ Succeeded(x)
    /\ pc[w] = "done" /\ resp[w].code = "duplicate_vote_error"
    /\ Cardinality(VoteRows(req[w].current_user_id, req[w].feature_id)) = 1

\* The group is NumWorkers vote_feature calls of one user for one stored
\* feature the user has not voted for.
SamePairRace ==
  /\ \A w \in Workers : req[w].op = "vote" /\ req[w] = req[1]
  /\ req[1].feature_id \in DOMAIN store0.features
  /\ ~Voted(store0, req[1].current_user_id, req[1].feature_id)

DistinctUsersRace ==
  /\ \A w \in Workers : req[w].op = "vote"
  /\ \A w \in Workers, x \in Workers :
       w # x => req[w].current_user_id # req[x].current_user_id
  /\ req[1].feature_id \in DOMAIN store0.features
  /\ \A w \in Workers : ~Voted(store0, req[w].current_user_id, req[w].feature_id)

\* C4: N concurrent vote_feature calls of N distinct users for one feature
\* all succeed and leave vote_count N above its value before the calls.
C4_DistinctUsersRace ==
  (DistinctUsersRace /\ AllDone) =>
    /\ \A w \in Workers : Succeeded(w)
    /\ features[req[1].feature_id].vote_count
         = store0.features[req[1].feature_id].vote_count + NumWorkers

\* A step in which worker w's vote_feature call fails.
VoteFails(w) ==
  /\ req[w].op = "vote" /\ pc[w] # "done"
  /\ pc'[w] = "done" /\ resp'[w].status >= 400

\* C5: the step in which a vote_feature call fails (feature not found,
\* duplicate found by the pre-check, duplicate found by the constraint at
\* commit) leaves every Vote row and every vote_count as they were, and the
\* call has written nothing before it: a vote_feature step that changes the
\* store is the commit of a call that then answers success.
C5_FailedVoteWritesNothing ==
  [][\A w \in Workers :
       /\ VoteFails(w) => store' = store /\ pc[w] # "return"
       /\ (req[w].op = "vote" /\ pc[w] # pc'[w] /\ store' # store) => pc'[w] = "return"
       /\ (req[w].op = "vote" /\ pc[w] = "return" /\ pc'[w] = "done") => resp'[w].code = "ok"
    ]_vars

\* C5 witness: a call lost the uniqueness race at commit, and the counter
\* holds the winner's increment only.
C5_Witness ==
  \E w \in Workers :
    /\ pc[w] = "done" /\ resp[w].code = "duplicate_vote_error"
    /\ req[w].feature_id \in DOMAIN features
    /\ features[req[w].feature_id].vote_count
         = store0.features[req[w].feature_id].vote_count + 1

C7_NeverNegative ==
  \A f \in DOMAIN features : features[f].vote_count >= 0

\* C7 witness: a removal committed on a counter it had read as 0.
C7_Witness ==
  \E w \in Workers :
    /\ pc[w] = "return" /\ req[w].op = "remove"
    /\ loc[w].vote_count = 0
    /\ features[req[w].feature_id].vote_count = 0

\* C8: for a stored feature, vote_feature succeeds exactly when the pair
\* has no vote and leaves it voted; remove_vote succeeds exactly when the
\* pair has a vote and leaves it without one; a call that fails leaves the
\* pair as it was.
C8_TwoStateMachine ==
  (pc[1] = "done" /\ req[1].feature_id \in DOMAIN store0.features) =>
    LET u == req[1].current_user_id
        f == req[1].feature_id
    IN /\ req[1].op = "vote" =>
            /\ Succeeded(1) <=> ~Voted(store0, u, f)
            /\ Voted(store, u, f)
       /\ req[1].op = "remove" =>
            /\ Succeeded(1) <=> Voted(store0, u, f)
            /\ ~Voted(store, u, f)

\* C8 witness: a second consecutive cast was refused.
C8_Witness ==
  /\ pc[1] = "done" /\ req[1].op = "vote" /\ resp[1].status = 409
  /\ Voted(store0, req[1].current_user_id, req[1].feature_id)
  /\ Voted(store, req[1].current_user_id, req[1].feature_id)

\* C9: a successful vote_feature inserts exactly one Vote row (the
\* caller's), raises the feature's vote_count by exactly 1 and returns the
\* stored vote_count; a successful remove_vote deletes exactly one Vote row
\* (the caller's), sets vote_count to max(0, old - 1) and returns the stored
\* vote_count.
C9_EffectOfSuccess ==
  Succeeded(1) =>
    LET u == req[1].current_user_id
        f == req[1].feature_id
        old == store0.features[f].vote_count
    IN /\ req[1].op = "vote" =>
            /\ store0.votes \subseteq votes
            /\ Cardinality(votes \ store0.votes) = 1
            /\ \A v \in votes \ store0.votes : v.user_id = u /\ v.feature_id = f
            /\ features[f].vote_count = old + 1
       /\ req[1].op = "remove" =>
            /\ votes \subseteq store0.votes
            /\ Cardinality(store0.votes \ votes) = 1
            /\ \A v \in store0.votes \ votes : v.user_id = u /\ v.feature_id = f
            /\ features[f].vote_count = Max(0, old - 1)
       /\ resp[1].vote_count = features[f].vote_count
       /\ \A g \in DOMAIN features : g # f => features[g] = store0.features[g]

\* C9 witness: a vote has succeeded on a feature that held a vote already.
C9_Witness ==
  /\ Succeeded(1) /\ req[1].op = "vote" /\ resp[1].vote_count = 2

\* What a store shows of the ledger: the pairs that voted and the counters.
View(st) ==
  [pairs |-> {<<v.user_id, v.feature_id>> : v \in st.votes},
   counts |-> [f \in DOMAIN st.features |-> st.features[f].vote_count]]

\* The view a request leaves when it runs alone on a store with view vw.
RunAlone(vw, r) ==
  LET p == <<r.current_user_id, r.feature_id>>
      f == r.feature_id
  IN IF f \notin DOMAIN vw.counts THEN vw
     ELSE IF r.op = "vote"
       THEN IF p \in vw.pairs THEN vw
            ELSE [pairs |-> vw.pairs \cup {p},
                  counts |-> [vw.counts EXCEPT ![f] = @ + 1]]
       ELSE IF p \notin vw.pairs THEN vw
            ELSE [pairs |-> vw.pairs \ {p},
                  counts |-> [vw.counts EXCEPT ![f] = Max(0, @ - 1)]]

\* The view after the requests of the workers listed in order run one after
\* the other.
RECURSIVE RunInOrder(_, _)
RunInOrder(vw, order) ==
  IF order = << >> THEN vw
  ELSE RunInOrder(RunAlone(vw, req[Head(order)]), Tail(order))

Orders == {o \in [1..NumWorkers -> Workers] : \A i, j \in 1..NumWorkers : i # j => o[i] # o[j]}

\* The group holds a vote_feature and a remove_vote call for a stored feature
\* whose counter agreed with the ledger before the calls.
CastRetractRace ==
  /\ \E w \in Workers : req[w].op = "vote"
  /\ \E w \in Workers : req[w].op = "remove"
  /\ req[1].feature_id \in DOMAIN store0.features
  /\ Consistent(store0)

\* C10: concurrent vote_feature and remove_vote calls for one feature end in
\* the state some serial order of them yields: the Vote rows and vote_count
\* still agree.
C10_CastRetractSerial ==
  (CastRetractRace /\ AllDone) =>
    /\ \E o \in Orders : View(store) = RunInOrder(View(store0), o)
    /\ Consistent(store)

\* C11: a duplicate vote the uniqueness constraint finds at commit is
\* answered with the error kind and status of one the pre-check finds
\* (DuplicateVoteException: 409, DUPLICATE_VOTE).
C11_OneDuplicateReport ==
  \A w \in Workers :
    FailedDuplicate(w) => resp[w].status = 409 /\ resp[w].code = "DUPLICATE_VOTE"

C13_VotesReferToUsers ==
  /\ \A v \in votes : v.user_id \in DOMAIN users /\ v.feature_id \in DOMAIN features
  /\ (pc[1] = "done" /\ req[1].op = "vote" /\ req[1].current_user_id \notin DOMAIN users)
       => resp[1].status \in {400, 404} /\ store = store0

\* C14: read_feature, update_feature, vote_feature and remove_vote for a
\* positive feature id that is not stored answer 404 FEATURE_NOT_FOUND and
\* leave the store as it was; vote_feature and remove_vote look for the
\* caller's vote only once the feature was found.
C14_FeatureNotFound ==
  /\ (/\ pc[1] = "done" /\ req[1].op \in {"read", "update", "vote", "remove"}
      /\ req[1].feature_id > 0 /\ req[1].feature_id \notin DOMAIN store0.features)
     => /\ resp[1].status = 404 /\ resp[1].code = "FEATURE_NOT_FOUND"
        /\ store = store0
  /\ pc[1] = "check_vote" => req[1].feature_id \in DOMAIN features

\* C14 witness: a removal for a feature that is not stored, by a caller
\* without votes, was answered for the feature.
C14_Witness ==
  /\ pc[1] = "done" /\ req[1].op = "remove"
  /\ req[1].feature_id > 0 /\ req[1].feature_id \notin DOMAIN features
  /\ resp[1].code = "FEATURE_NOT_FOUND"

\* The integers string s writes in base 10: blanks, an optional sign, one
\* or more digits, blanks.
Written(s) ==
  {(LET core == SubSeq(s, p[1], p[2])
        ds == IF core[1] \in {"+", "-"} THEN Tail(core) ELSE core
    IN IF core[1] = "-" THEN 0 - DecimalValue(ds) ELSE DecimalValue(ds)) :
   p \in {q \in (1..Len(s)) \X (1..Len(s)) :
            /\ q[1] <= q[2]
            /\ \A k \in 1..Len(s) : (k < q[1] \/ k > q[2]) => s[k] = " "
            /\ LET core == SubSeq(s, q[1], q[2])
                   ds == IF core[1] \in {"+", "-"} THEN Tail(core) ELSE core
               IN ds # << >> /\ \A k \in 1..Len(ds) : ds[k] \in Digits}}

Writes(s, n) == n \in Written(s)

\* The header of the request writes an integer greater than 0.
WritesIdentity(h) == h.present /\ \E n \in Written(h.value) : n > 0

\* The request was turned away with the given status before its handler
\* ran a statement, and the store is as the request found it.
TurnedAway(status) ==
  /\ pc[1] = "done" /\ resp[1].status = status
  /\ req[1].current_user_id = 0
  /\ store = store0

Counts(st) == [f \in DOMAIN st.features |-> st.features[f].vote_count]

\* C16: through create_feature, update_feature, vote_feature and
\* remove_vote a feature's vote_count stays equal to the number of its Vote
\* rows, and update_feature leaves every vote_count as it was, whatever
\* its body.
C16_OnlyLedgerWritesCount ==
  /\ Consistent(store0) => Consistent(store)
  /\ req[1].op = "update" => Counts(store) = Counts(store0)

\* A finished update_feature call for a stored feature.
UpdateDone == pc[1] = "done" /\ req[1].op = "update" /\ req[1].feature_id \in DOMAIN store0.features

\* C17: an update_feature call whose body carries a vote_count, when it
\* succeeds, has stored exactly that value as the feature's vote_count;
\* when it fails the store is as it was; in both cases the Vote rows are
\* as they were.
C17_UpdateOverwritesCount ==
  (UpdateDone /\ input[1].body.vote_count.kind = "value") =>
    /\ votes = store0.votes
    /\ Succeeded(1) =>
         features[req[1].feature_id].vote_count = input[1].body.vote_count.value
    /\ ~Succeeded(1) => store = store0

\* C17 witness: an update stored the counter 2 on a feature without votes.
C17_Witness ==
  /\ UpdateDone /\ Succeeded(1)
  /\ input[1].body.vote_count = Value(2)
  /\ features[req[1].feature_id].vote_count = 2
  /\ FeatureVotes(req[1].feature_id) = {}
  /\ store0.features[req[1].feature_id].vote_count = 0

\* C18: through any API call, update_feature with a vote_count of the
\* caller's included, the stored vote_count of every feature stays a
\* non-negative integer.
C18_CountStaysNonNegative ==
  (\A f \in DOMAIN store0.features : store0.features[f].vote_count >= 0)
  => \A f \in DOMAIN features : features[f].vote_count >= 0

\* The columns of a features row.
Columns == {"title", "description", "author_id", "created_at", "vote_count"}

\* C19: an update_feature call changes no column its body does not carry
\* (author_id and created_at are never carried), no other feature and no
\* Vote row; a body whose fields all carry values succeeds and stores each
\* of them.
C19_PartialUpdate ==
  UpdateDone =>
    LET f == req[1].feature_id
        body == input[1].body
    IN /\ \A c \in Columns \ SetKeys(body) : features[f][c] = store0.features[f][c]
       /\ Len(features) = Len(store0.features)
       /\ \A g \in DOMAIN features : g # f => features[g] = store0.features[g]
       /\ votes = store0.votes
       /\ (\A k \in SetKeys(body) : body[k].kind = "value") =>
            /\ Succeeded(1)
            /\ \A k \in SetKeys(body) : features[f][k] = body[k].value

\* C19 witness: an update of the title alone on a feature with one vote
\* changed the title and left vote_count at 1.
C19_Witness ==
  /\ UpdateDone /\ Succeeded(1)
  /\ SetKeys(input[1].body) = {"title"}
  /\ features[req[1].feature_id].title # store0.features[req[1].feature_id].title
  /\ features[req[1].feature_id].vote_count = 1
  /\ Cardinality(FeatureVotes(req[1].feature_id)) = 1

\* C20: a successful create_feature call has added one feature, with
\* vote_count 0, the caller as author_id and no Vote row, and has left the
\* other features and the Vote rows as they were.
C20_CreatedFeature ==
  (pc[1] = "done" /\ req[1].op = "create" /\ Succeeded(1)) =>
    LET f == req[1].feature_id
    IN /\ DOMAIN features = DOMAIN store0.features \cup {f}
       /\ f \notin DOMAIN store0.features
       /\ features[f].vote_count = 0
       /\ features[f].author_id = req[1].current_user_id
       /\ FeatureVotes(f) = {}
       /\ \A g \in DOMAIN store0.features : features[g] = store0.features[g]
       /\ votes = store0.votes

\* C20 witness: user 2 submitted the second feature while the first held
\* a vote.
C20_Witness ==
  /\ pc[1] = "done" /\ req[1].op = "create" /\ Succeeded(1)
  /\ req[1].current_user_id = 2 /\ req[1].feature_id = 2
  /\ features[2].author_id = 2 /\ features[2].vote_count = 0
  /\ FeatureVotes(1) # {}


\* A step that serves a create_feature call, and the title and description
\* of its body.
Created == req'[1].op = "create" /\ pc'[1] = "done"
SentTitle == input'[1].body.title.value
SentDescription == input'[1].body.description.value

\* C21: every feature create_feature stores has a title of 3 to 100
\* characters after trimming and a description of 10 to 1000; a body with a
\* title or description outside these bounds once trimmed is refused with a
\* validation error and nothing is stored.
C21_TrimmedWithinBounds ==
  [][Created =>
       /\ features' # features =>
            FeatureBase(strip(features'[Len(features')].title),
                        strip(features'[Len(features')].description))
       /\ ~FeatureBase(strip(SentTitle), strip(SentDescription)) =>
            resp'[1].status = 422 /\ features' = features]_vars


\* Whether a FeatureUpdate body carries a title or a description that is
\* outside the bounds of create_feature once trimmed (a blank one is).
InvalidText(body) ==
  \/ /\ body.title.kind = "value"
     /\ ~FeatureBase(strip(body.title.value), FirstDescription)
  \/ /\ body.description.kind = "value"
     /\ ~FeatureBase(FirstTitle, strip(body.description.value))

\* C22: update_feature refuses a body whose title or description is
\* invalid for create_feature with a validation error, and leaves the
\* feature as it was.
C22_UpdateValidated ==
  [][(req[1].op = "update" /\ InvalidText(input[1].body)) =>
       /\ features' = features
       /\ pc'[1] = "done" => resp'[1].status = 422]_vars


\* A read_features call that was answered with a page.
Listed(w) == pc[w] = "done" /\ req[w].op = "list" /\ resp[w].status = 200
ItemIds(w) == {listing[w].items[i].id : i \in DOMAIN listing[w].items}
ItemCounts(w) == {listing[w].items[i].vote_count : i \in DOMAIN listing[w].items}

\* C23: the items of a page are in non-increasing order of vote_count, and
\* for one store and one page_size every item of page p has a vote_count
\* no smaller than that of every item of page p + 1.
C23_SortedByVotes ==
  /\ \A w \in Readers : Listed(w) =>
       \A i, j \in DOMAIN listing[w].items :
         i < j => listing[w].items[i].vote_count >= listing[w].items[j].vote_count
  /\ \A w, x \in Readers :
       (/\ Listed(w) /\ Listed(x)
        /\ listing[w].page_size = listing[x].page_size
        /\ listing[x].page = listing[w].page + 1) =>
       \A c \in ItemCounts(w), d \in ItemCounts(x) : c >= d

\* C23 witness: pages 1 and 2 of one item each were returned, the item of
\* page 1 with more votes than the item of page 2.
C23_Witness ==
  /\ Listed(1) /\ Listed(2)
  /\ listing[1].page = 1 /\ listing[2].page = 2
  /\ Len(listing[1].items) = 1 /\ Len(listing[2].items) = 1
  /\ listing[1].items[1].vote_count > listing[2].items[1].vote_count

\* C24: total_pages is the least number of pages of page_size items that
\* hold total_count items, and 1 where there is none; has_next tells
\* whether page is below total_pages, has_previous whether it is above 1;
\* a page carries min(page_size, max(0, total_count - (page-1)*page_size))
\* items.
C24_PageArithmetic ==
  \A w \in Readers : Listed(w) =>
    LET l == listing[w] IN
    /\ l.total_count = Len(features)
    /\ l.total_pages >= 1
    /\ l.total_pages * l.page_size >= l.total_count
    /\ l.total_pages = 1 \/ (l.total_pages - 1) * l.page_size < l.total_count
    /\ l.has_next <=> l.page < l.total_pages
    /\ l.has_previous <=> l.page > 1
    /\ Len(l.items) =
         Min(l.page_size, Max(0, l.total_count - (l.page - 1) * l.page_size))

\* C24 witness: a store of an odd number of features read in pages of two:
\* the last page carries one item, and a page beyond it none.
C24_Witness ==
  /\ Listed(1) /\ Listed(2)
  /\ listing[1].page_size = 2 /\ listing[1].total_count % 2 = 1
  /\ listing[1].page = listing[1].total_pages /\ Len(listing[1].items) = 1
  /\ ~listing[1].has_next
  /\ listing[2].page = listing[2].total_pages + 1 /\ listing[2].items = << >>
  /\ listing[2].has_previous

\* C25: for one store and one page_size, two different pages never carry
\* the same feature, features of equal vote_count included.
C25_PagesDisjoint ==
  (/\ Listed(1) /\ Listed(2)
   /\ listing[1].page_size = listing[2].page_size
   /\ listing[1].page # listing[2].page) =>
  ItemIds(1) \cap ItemIds(2) = {}

\* C26: read_features answers a page below 1, a page_size below 1 and a
\* page_size above 100 with 422 and returns no listing.
C26_QueryValidated ==
  \A w \in Readers :
    (/\ pc[w] = "done" /\ req[w].op = "list"
     /\ \/ input[w].query.page < 1
        \/ input[w].query.page_size < 1
        \/ input[w].query.page_size > page_size_max) =>
    resp[w].status = 422 /\ listing[w] = NoListing

\* C26 witness: a request for page 1 with page_size 101 was refused, and
\* one for page 0 of a valid size.
C26_Witness ==
  /\ pc[1] = "done" /\ pc[2] = "done"
  /\ input[1].query = [page |-> 1, page_size |-> page_size_max + 1]
  /\ input[2].query.page = 0
  /\ resp[1].status = 422 /\ resp[2].status = 422


\* A step that answers the create_user call of worker w.
Answered(w) == req[w].op = "create_user" /\ pc[w] # "done" /\ pc'[w] = "done"
HasAt(s) == \E i \in DOMAIN s : s[i] = "@"

\* C27: no two stored users share a username or an email after any
\* interleaving of create_user calls, the emails compared in lower case
\* and the usernames trimmed.
C27_UsersUnique ==
  \A i, j \in DOMAIN users :
    i # j => /\ strip(users[i].username) # strip(users[j].username)
             /\ lower(users[i].email) # lower(users[j].email)

\* C27 witness: two calls with different usernames and with emails that
\* differ in case only were both answered, one of them with a new user.
C27_Witness ==
  /\ pc[1] = "done" /\ pc[2] = "done" /\ req[1].op = "create_user"
  /\ input[1].user.email # input[2].user.email
  /\ lower(input[1].user.email) = lower(input[2].user.email)
  /\ strip(input[1].user.username) # strip(input[2].user.username)
  /\ {resp[1].status, resp[2].status} = {201, 400}

C29_DuplicateIsServerError ==
  [][\A w \in Creators :
       (Answered(w) /\ pc[w] = "commit"
        /\ UniqueViolations(NewUser(UserCreate(input[w].user))) # {}) =>
       resp'[w].status = 500]_vars

SameRemoveRace ==
  /\ \A w \in Workers : req[w].op = "remove" /\ req[w] = req[1]
  /\ req[1].feature_id \in DOMAIN store0.features
  /\ Voted(store0, req[1].current_user_id, req[1].feature_id)
  /\ Consistent(store0)

\* C33: of concurrent remove_vote calls for one pair that has its Vote
\* row, exactly one succeeds, the row is deleted, and the feature's
\* vote_count is lowered by exactly 1.
C33_OneRemovalSucceeds ==
  (AllDone /\ SameRemoveRace) =>
    /\ Cardinality({w \in Workers : Succeeded(w)}) = 1
    /\ ~Voted(store, req[1].current_user_id, req[1].feature_id)
    /\ features[req[1].feature_id].vote_count =
         store0.features[req[1].feature_id].vote_count - 1


\* The Vote rows a step inserts or deletes.
ChangedVotes == (votes' \ votes) \cup (votes \ votes')

\* C35: a statement of vote_feature or remove_vote on feature f by user u
\* changes nothing but f's vote_count and the Vote row of (u, f): the
\* users, the other features, f's title, description and author_id, and
\* the Vote rows of other pairs stay as they were.
C35_FrameOfVote ==
  [][\A w \in Workers :
       (pc'[w] # pc[w] /\ req[w].op \in Ops) =>
         /\ users' = users
         /\ DOMAIN features' = DOMAIN features
         /\ \A g \in DOMAIN features :
              /\ g # req[w].feature_id => features'[g] = features[g]
              /\ features'[g] = [features[g] EXCEPT !.vote_count = features'[g].vote_count]
         /\ \A v \in ChangedVotes :
              /\ v.user_id = req[w].current_user_id
              /\ v.feature_id = req[w].feature_id]_vars


\* C36: update_feature, vote_feature and remove_vote answer a feature id
\* of 0 or less with status 400 in their first statement, before the store
\* is read: nothing is loaded and no feature or Vote row changes.
C36_NonPositiveId ==
  [][(/\ req[1].op \in {"update", "vote", "remove"}
      /\ req[1].feature_id <= 0
      /\ pc[1] = "get_feature") =>
     /\ pc'[1] = "done" /\ resp'[1].status = 400 /\ resp'[1].code = "HTTP_400"
     /\ loc' = loc /\ features' = features /\ votes' = votes]_vars

\* C36 witness: an update of feature id 0 that carried a title was refused
\* with nothing loaded.
C36_Witness ==
  /\ pc[1] = "done" /\ req[1].op = "update" /\ req[1].feature_id <= 0
  /\ input[1].body.title.kind = "value"
  /\ resp[1].status = 400 /\ loc[1] = NoLoc /\ store = store0


\* The change of the counter the request of worker w made: 1 for a vote
\* that succeeded, -1 for a removal that succeeded, 0 otherwise.
CountChange(w) ==
  IF ~Succeeded(w) THEN 0 ELSE IF req[w].op = "vote" THEN 1 ELSE 0 - 1

\* C34: an update_feature without vote_count that overlaps a vote_feature
\* or remove_vote on the same feature loses nothing: when both are done
\* the vote_count is the earlier one changed by the vote operation, the
\* ledger agrees with it, and title and description are those of the
\* update where it supplied them and succeeded, the earlier ones otherwise.
C34_UpdateKeepsCount ==
  (pc[1] = "done" /\ pc[2] = "done" /\ req[1].op = "update" /\ req[2].op \in Ops) =>
    LET f == req[1].feature_id IN
    /\ features[f].vote_count = store0.features[f].vote_count + CountChange(2)
    /\ Consistent(store)
    /\ \A k \in {"title", "description"} :
         features[f][k] =
           IF resp[1].status # 500 /\ input[1].body[k].kind = "value"
             THEN input[1].body[k].value
             ELSE store0.features[f][k]

\* C34 witness: an update that changed the title and a vote for the same
\* feature both succeeded, and both responses carry the raised counter.
C34_Witness ==
  /\ pc[1] = "done" /\ pc[2] = "done" /\ req[1].op = "update" /\ req[2].op = "vote"
  /\ Succeeded(1) /\ Succeeded(2)
  /\ features[req[1].feature_id].title # store0.features[req[1].feature_id].title
  /\ resp[1].vote_count = features[req[1].feature_id].vote_count
  /\ resp[2].vote_count = features[req[1].feature_id].vote_count


-----------------------------------------------------------------------------
(* C32 *)

\* An exception of a class no specific handler is registered for.
Unexpected(exc) == exc.class = "Exception"

\* C32: the response to a DatabaseException, and to an exception no
\* specific handler covers, has status 500 and a detail and error_code that
\* do not depend on the message of the exception: two failures of the same
\* class answer with the same detail and error_code, and the detail is not
\* the message.
C32_GenericDetail ==
  \A v \in Failing, w \in Failing :
    ( /\ pc[v] = "done" /\ pc[w] = "done"
      /\ req[v].op = "raise" /\ req[w].op = "raise"
      /\ req[v].exc.class = req[w].exc.class
      /\ req[v].exc.class = "DatabaseException" \/ Unexpected(req[v].exc) )
    => /\ resp[v].status = 500
       /\ resp[v].message = resp[w].message
       /\ resp[v].code = resp[w].code
       /\ req[v].exc.message # "" => resp[v].message # req[v].exc.message

\* C32 witness: two DatabaseExceptions raised with different messages, both
\* answered 500 with the same detail.
C32_Witness ==
  /\ pc[1] = "done" /\ pc[2] = "done"
  /\ req[1].op = "raise" /\ req[2].op = "raise"
  /\ req[1].exc.class = "DatabaseException" /\ req[2].exc.class = "DatabaseException"
  /\ req[1].exc.message = "Failed to retrieve users"
  /\ req[2].exc.message = "Failed to create user due to data constraint"
  /\ resp[1].status = 500 /\ resp[2].status = 500
  /\ resp[1].message = "Internal server error"
  /\ resp[2].message = "Internal server error"
  /\ resp[1].code = "DATABASE_ERROR" /\ resp[2].code = "DATABASE_ERROR"


-----------------------------------------------------------------------------
(* C37 *)

\* The counter of every stored feature equals the number of its Vote rows.
LedgerMatches(fs, vs) ==
  \A f \in DOMAIN fs : fs[f].vote_count = Cardinality({v \in vs : v.feature_id = f})

\* C37: in the votes router, a create_vote or delete_vote request served
\* alone, and so a create_vote followed by the delete_vote of the Vote it
\* returned, leaves the vote_count of every stored feature equal to the
\* number of its Vote rows where it was before; and the only row a
\* delete_vote removes has the user_id and the id of the request.
C37_LegacyRoundTrip ==
  [][ /\ LedgerMatches(features, votes) => LedgerMatches(features', votes')
      /\ \A v \in votes \ votes' :
           /\ req'[2].op = "delete_vote"
           /\ v.user_id = req'[2].current_user_id
           /\ v.id = req'[2].vote_id ]_vars

\* C37 witness: a Vote for a stored feature that other users voted for was
\* created (201) and then deleted by its id (204); the row is gone and the
\* counter equals the number of rows left.
C37_Witness ==
  /\ pc[1] = "done" /\ req[1].op = "create_vote" /\ resp[1].status = 201
  /\ pc[2] = "done" /\ req[2].op = "delete_vote" /\ resp[2].status = 204
  /\ req[2].vote_id = resp[1].vote_id
  /\ req[2].current_user_id = req[1].current_user_id
  /\ FeatureExists(req[1].feature_id)
  /\ VoteRows(req[1].current_user_id, req[1].feature_id) = {}
  /\ features[req[1].feature_id].vote_count = 1
  /\ Cardinality(FeatureVotes(req[1].feature_id)) = 1
  /\ store0.features[req[1].feature_id].vote_count = 2


-----------------------------------------------------------------------------
(* C31 *)

\* The kinds of response of the error taxonomy.
Taxonomy ==
  {"success", "Unauthenticated", "InvalidIdentity", "ValidationError",
   "FeatureNotFound", "UserNotFound", "VoteNotFound", "DuplicateVote",
   "ConstraintViolation", "UnexpectedError"}

\* The kind of a response, by what the handlers put in error_code or type;
\* a request that has no response, or one no handler produced, has none.
ResponseKind(r) ==
  CASE r.code = "ok" /\ r.status \in {200, 201}  -> "success"
    [] r.code = "HTTP_401"                        -> "Unauthenticated"
    [] r.code = "HTTP_400"                        -> "InvalidIdentity"
    [] r.code = "validation_error"                -> "ValidationError"
    [] r.code = "FEATURE_NOT_FOUND"               -> "FeatureNotFound"
    [] r.code = "USER_NOT_FOUND"                  -> "UserNotFound"
    [] r.code = "VOTE_NOT_FOUND"                  -> "VoteNotFound"
    [] r.code \in {"DUPLICATE_VOTE", "duplicate_vote_error"} -> "DuplicateVote"
    [] r.code = "integrity_error"                 -> "ConstraintViolation"
    [] r.code = "UNEXPECTED_ERROR"                -> "UnexpectedError"
    [] OTHER                                      -> "none"

=============================================================================
